---- MODULE Spec2Model ----
(***************************************************************************)
(* Model of the doklah pediatric growth assessment engine (js/health.js):  *)
(* the cached reference dataset, the three record resolvers, the closeness *)
(* scorer and its label, the two growth-stage classifiers, the z-score     *)
(* curve service over its cached dataset, and the results view of          *)
(* js/app.js with its z-score classification labels; further the cache-    *)
(* first service worker, the settings store over localStorage with         *)
(* changeLanguage of js/i18n.js, the asynchronous callers of               *)
(* loadZScoreData with the chart SVG of js/chart.js, and the submit        *)
(* handler of the assessment form.                                         *)
(*                                                                         *)
(* Units.  Ages are integers.  Heights are whole centimetres (integers are *)
(* exact IEEE doubles).  Weights are tenths of a kilogram in the binade    *)
(* [4.0, 8.0) kg; the double nearest to w/10 is                            *)
(*     w * 112589990684262 + WeightUlps(w)     (in units of 2^-50),        *)
(* and the difference of two doubles of one binade is exact, so the        *)
(* resolvers' floating-point comparisons are modelled bit for bit.         *)
(* The closeness scorer is modelled in exact rational arithmetic, with     *)
(* both outcomes of Math.round where the exact value is a half.            *)
(***************************************************************************)
EXTENDS Integers, Sequences, FiniteSets

VARIABLES childData, call, prev, zScoreData,
          swCache, swPending,
          localStorage, DEFAULT_SETTINGS,
          invocations, chartSvg, zScoreFetches, zScoreObject,
          currentPatientData, errorList

vars == <<childData, call, prev, zScoreData,
         swCache, swPending,
         localStorage, DEFAULT_SETTINGS,
         invocations, chartSvg, zScoreFetches, zScoreObject,
         currentPatientData, errorList>>

formVars == <<currentPatientData, errorList>>

asyncVars == <<invocations, chartSvg, zScoreFetches, zScoreObject>>

settingsVars == <<localStorage, DEFAULT_SETTINGS>>

healthVars == <<childData, prev, zScoreData>>

workerVars == <<swCache, swPending>>

\* ---------------------------------------------------------------- bounds

\* Most invocations of renderGrowthChart and displayResults in one session.
MaxInvocations == 2

\* Longest reference dataset a load may deliver.
MaxRecords == 3

\* calculateCloseness is given the weights 0, 0.7, ..., 0.7 * MaxInputSteps kg.
MaxInputSteps == 21

\* Largest age value, in either unit, a growth stage is asked for.
MaxAge == 130

\* Longest partition of the z-score dataset.
MaxEntries == 2

\* Largest z-score, in tenths, a classification label is asked for.
MaxZTenths == 30

\* ---------------------------------------------------------------- values

\* JavaScript null / an optional value.
Null == <<>>

Some(v) == <<v>>

Genders == {"BOY", "GIRL"}

Units == {"MONTH", "YEAR"}

Rec(g, a, u, w, h) ==
    [gender |-> g, age |-> a, ageUnit |-> u, weight |-> w, height |-> h]

\* The reference records a data/child.json may hold.
RecordPool ==
    { Rec("BOY", 3, "MONTH", 59, 58),
      Rec("BOY", 4, "MONTH", 60, 60),
      Rec("BOY", 5, "MONTH", 60, 62),
      Rec("BOY", 6, "MONTH", 61, 62),
      Rec("BOY", 12, "MONTH", 62, 64),
      Rec("BOY", 1, "YEAR", 62, 66),
      Rec("GIRL", 5, "MONTH", 60, 61),
      Rec("GIRL", 12, "MONTH", 62, 63) }

Datasets == UNION { [1..n -> RecordPool] : n \in 0..MaxRecords }

QueryAges == {0, 1, 5, 9, 12}

QueryWeights == {58, 60, 61, 63}

QueryHeights == {59, 61, 65}

\* Inputs of calculateCloseness: weights in tenths of a kilogram (8.0 kg among
\* them), heights in centimetres, and the age-matched records.
InputWeights == {7 * k : k \in 0..MaxInputSteps} \cup {80}

InputHeights == {0, 63, 70, 77, 84, 98, 150}

AgeMatchedRecords ==
    { Rec("BOY", 6, "MONTH", 70, 70), Rec("GIRL", 5, "MONTH", 60, 61) }

Abs(x) == IF x < 0 THEN -x ELSE x

\* ------------------------------------------------------- unit normalizer

convertToMonths(age, unit) == IF unit = "MONTH" THEN age ELSE age * 12

Months(record) == convertToMonths(record.age, record.ageUnit)

\* ------------------------------------------------------------- results

Thrown(msg) == [error |-> msg, record |-> Null]

Returned(record) == [error |-> "", record |-> Some(record)]

NotLoaded == "Child data not loaded"

NoDataForGender == "No data found for gender"

\* DataMissing without the length test.
DataMissing_NullOnly(data) == data = Null

\* `!childData || childData.length === 0`
DataMissing(data) == data = Null \/ Len(data[1]) = 0

\* GenderCandidates without the filter.
GenderCandidates_Unfiltered(data, gender) == data[1]

\* childData.filter((record) => record.gender === gender)
GenderCandidates(data, gender) ==
    SelectSeq(data[1], LAMBDA record : record.gender = gender)

\* ----------------------------------------------------- findMatchByAge

RECURSIVE ScanByAge_Inverted(_, _, _, _, _)
\* ScanByAge with the comparison of the differences inverted.
ScanByAge_Inverted(candidates, i, closestByAge, minAgeDiff, inputAgeMonths) ==
    IF i > Len(candidates) THEN closestByAge
    ELSE LET record == candidates[i]
             recordAgeMonths == Months(record)
             ageDiff == Abs(recordAgeMonths - inputAgeMonths)
         IN  IF ageDiff > minAgeDiff
             THEN ScanByAge_Inverted(candidates, i + 1, record, ageDiff,
                                     inputAgeMonths)
             ELSE IF ageDiff = minAgeDiff /\ recordAgeMonths > Months(closestByAge)
             THEN ScanByAge_Inverted(candidates, i + 1, record, minAgeDiff,
                                     inputAgeMonths)
             ELSE ScanByAge_Inverted(candidates, i + 1, closestByAge, minAgeDiff,
                                     inputAgeMonths)

RECURSIVE ScanByAge_NoTieBreak(_, _, _, _, _)
\* ScanByAge without the tie branch: the first closest candidate is kept.
ScanByAge_NoTieBreak(candidates, i, closestByAge, minAgeDiff, inputAgeMonths) ==
    IF i > Len(candidates) THEN closestByAge
    ELSE LET record == candidates[i]
             ageDiff == Abs(Months(record) - inputAgeMonths)
         IN  IF ageDiff < minAgeDiff
             THEN ScanByAge_NoTieBreak(candidates, i + 1, record, ageDiff,
                                       inputAgeMonths)
             ELSE ScanByAge_NoTieBreak(candidates, i + 1, closestByAge,
                                       minAgeDiff, inputAgeMonths)

RECURSIVE ScanByAge(_, _, _, _, _)
\* The forEach of findMatchByAge from candidate i on: (closestByAge, minAgeDiff)
\* are the loop's two variables.
ScanByAge(candidates, i, closestByAge, minAgeDiff, inputAgeMonths) ==
    IF i > Len(candidates) THEN closestByAge
    ELSE LET record == candidates[i]
             recordAgeMonths == Months(record)
             ageDiff == Abs(recordAgeMonths - inputAgeMonths)
         IN  IF ageDiff < minAgeDiff
             THEN ScanByAge(candidates, i + 1, record, ageDiff, inputAgeMonths)
             ELSE IF ageDiff = minAgeDiff /\ recordAgeMonths > Months(closestByAge)
             THEN ScanByAge(candidates, i + 1, record, minAgeDiff, inputAgeMonths)
             ELSE ScanByAge(candidates, i + 1, closestByAge, minAgeDiff,
                            inputAgeMonths)

findMatchByAge(data, gender, age, ageUnit) ==
    IF DataMissing(data) THEN Thrown(NotLoaded)
    ELSE LET candidates == GenderCandidates(data, gender)
             inputAgeMonths == convertToMonths(age, ageUnit)
         IN  IF Len(candidates) = 0 THEN Thrown(NoDataForGender)
             ELSE Returned(ScanByAge(candidates, 1, candidates[1],
                               Abs(Months(candidates[1]) - inputAgeMonths),
                               inputAgeMonths))

\* ------------------------------------------- floating-point weight diffs

\* Offset, in units of 2^-50, of the double nearest to w/10 from
\* w * 112589990684262 (2^50 / 10 = 112589990684262.4), for 4.0 <= w/10 < 8.0.
WeightUlps(w) == (4 * w + 5) \div 10

\* Math.abs(a - b) of two weights, exactly: <<tenths, ulps>> stands for
\* tenths * 112589990684262 + ulps (units of 2^-50); ulps is far below the
\* weight of one tenth, so the order is lexicographic.
WeightDiff(a, b) == <<Abs(a - b), Abs(WeightUlps(a) - WeightUlps(b))>>

\* d1 < d2 on such differences.
DiffLess(d1, d2) == d1[1] < d2[1] \/ (d1[1] = d2[1] /\ d1[2] < d2[2])

\* d < 0.1: the double 0.1 is 112589990684262 + 13/32 units of 2^-50.
WithinTolerance(d) == d[1] < 1 \/ (d[1] = 1 /\ 32 * d[2] < 13)

\* ------------------------------------------------ closest by weight scan

RECURSIVE ScanByWeight_YoungerOnTie(_, _, _, _, _)
\* ScanByWeight with the tie branch preferring the lower age.
ScanByWeight_YoungerOnTie(candidates, i, closestByWeight, minWeightDiff, weight) ==
    IF i > Len(candidates) THEN closestByWeight
    ELSE LET record == candidates[i]
             weightDiff == WeightDiff(record.weight, weight)
         IN  IF DiffLess(weightDiff, minWeightDiff)
             THEN ScanByWeight_YoungerOnTie(candidates, i + 1, record, weightDiff,
                                            weight)
             ELSE IF weightDiff = minWeightDiff
                     /\ Months(record) < Months(closestByWeight)
             THEN ScanByWeight_YoungerOnTie(candidates, i + 1, record,
                                            minWeightDiff, weight)
             ELSE ScanByWeight_YoungerOnTie(candidates, i + 1, closestByWeight,
                                            minWeightDiff, weight)

RECURSIVE ScanByWeight(_, _, _, _, _)
\* The forEach of findMatchByWeightAndHeight / findClosestMatch from candidate
\* i on: (closestByWeight, minWeightDiff) are the loop's two variables.
ScanByWeight(candidates, i, closestByWeight, minWeightDiff, weight) ==
    IF i > Len(candidates) THEN closestByWeight
    ELSE LET record == candidates[i]
             weightDiff == WeightDiff(record.weight, weight)
         IN  IF DiffLess(weightDiff, minWeightDiff)
             THEN ScanByWeight(candidates, i + 1, record, weightDiff, weight)
             ELSE IF weightDiff = minWeightDiff
                     /\ Months(record) > Months(closestByWeight)
             THEN ScanByWeight(candidates, i + 1, record, minWeightDiff, weight)
             ELSE ScanByWeight(candidates, i + 1, closestByWeight,
                               minWeightDiff, weight)

\* closestByWeight after the scan, for a non-empty candidate list.
ClosestByWeight(candidates, weight) ==
    ScanByWeight(candidates, 1, candidates[1],
                 WeightDiff(candidates[1].weight, weight), weight)

\* candidates.filter((record) => Math.abs(record.weight - closest.weight) < 0.1)
WeightGroup(candidates, closestByWeight) ==
    SelectSeq(candidates, LAMBDA record :
        WithinTolerance(WeightDiff(record.weight, closestByWeight.weight)))

\* ---------------------------------------------------- findClosestInGroup

RECURSIVE ScanGroup_AlwaysTieBreak(_, _, _, _, _, _, _)
\* ScanGroup with the tie branch taken whether or not unitMetric is given.
ScanGroup_AlwaysTieBreak(group, i, closest, minDiff, metric, value, unitMetric) ==
    IF i > Len(group) THEN closest
    ELSE LET record == group[i]
             diff == Abs(record[metric] - value)
         IN  IF diff < minDiff
             THEN ScanGroup_AlwaysTieBreak(group, i + 1, record, diff, metric,
                                           value, unitMetric)
             ELSE IF diff = minDiff /\ record[metric] > closest[metric]
             THEN ScanGroup_AlwaysTieBreak(group, i + 1, record, minDiff, metric,
                                           value, unitMetric)
             ELSE ScanGroup_AlwaysTieBreak(group, i + 1, closest, minDiff, metric,
                                           value, unitMetric)

RECURSIVE ScanGroup(_, _, _, _, _, _, _)
\* The forEach of findClosestInGroup from member i on.
ScanGroup(group, i, closest, minDiff, metric, value, unitMetric) ==
    IF i > Len(group) THEN closest
    ELSE LET record == group[i]
             diff == Abs(record[metric] - value)
         IN  IF diff < minDiff
             THEN ScanGroup(group, i + 1, record, diff, metric, value, unitMetric)
             ELSE IF diff = minDiff /\ unitMetric # Null
                     /\ record[metric] > closest[metric]
             THEN ScanGroup(group, i + 1, record, minDiff, metric, value,
                            unitMetric)
             ELSE ScanGroup(group, i + 1, closest, minDiff, metric, value,
                            unitMetric)

findClosestInGroup(group, metric, value, unitMetric) ==
    ScanGroup(group, 1, group[1], Abs(group[1][metric] - value), metric, value,
              unitMetric)

\* ------------------------------------------- findMatchByWeightAndHeight

findMatchByWeightAndHeight(data, gender, weight, height) ==
    IF DataMissing(data) THEN Thrown(NotLoaded)
    ELSE LET candidates == GenderCandidates(data, gender)
         IN  IF Len(candidates) = 0 THEN Thrown(NoDataForGender)
             ELSE LET closestByWeight == ClosestByWeight(candidates, weight)
                      weightGroup == WeightGroup(candidates, closestByWeight)
                  IN  IF height # Null /\ Len(weightGroup) > 1
                      THEN Returned(findClosestInGroup(weightGroup, "height",
                                                       height[1], Null))
                      ELSE Returned(closestByWeight)

\* ------------------------------------------------------ findClosestMatch

\* findClosestMatch with height taking precedence over age.
findClosestMatch_HeightFirst(data, gender, weight, age, height) ==
    IF DataMissing(data) THEN Thrown(NotLoaded)
    ELSE LET candidates == GenderCandidates(data, gender)
         IN  IF Len(candidates) = 0 THEN Thrown(NoDataForGender)
             ELSE LET closestByWeight == ClosestByWeight(candidates, weight)
                      weightGroup == WeightGroup(candidates, closestByWeight)
                  IN  IF (age # Null \/ height # Null) /\ Len(weightGroup) > 1
                      THEN IF height # Null
                           THEN Returned(findClosestInGroup(weightGroup,
                                             "height", height[1], Null))
                           ELSE Returned(findClosestInGroup(weightGroup, "age",
                                             age[1], Some("ageUnit")))
                      ELSE Returned(closestByWeight)

findClosestMatch(data, gender, weight, age, height) ==
    IF DataMissing(data) THEN Thrown(NotLoaded)
    ELSE LET candidates == GenderCandidates(data, gender)
         IN  IF Len(candidates) = 0 THEN Thrown(NoDataForGender)
             ELSE LET closestByWeight == ClosestByWeight(candidates, weight)
                      weightGroup == WeightGroup(candidates, closestByWeight)
                  IN  IF (age # Null \/ height # Null) /\ Len(weightGroup) > 1
                      THEN IF age # Null
                           THEN Returned(findClosestInGroup(weightGroup, "age",
                                             age[1], Some("ageUnit")))
                           ELSE Returned(findClosestInGroup(weightGroup,
                                             "height", height[1], Null))
                      ELSE Returned(closestByWeight)

\* ---------------------------------------------------- exact rationals

RECURSIVE GCD(_, _)
GCD(a, b) == IF b = 0 THEN a ELSE GCD(b, a % b)

\* The rational n/d (d > 0) in lowest terms, as <<numerator, denominator>>.
Rat(n, d) == LET g == GCD(Abs(n), d) IN <<n \div g, d \div g>>

RatInt(k) == <<k, 1>>

RatSub(x, y) == Rat(x[1] * y[2] - y[1] * x[2], x[2] * y[2])

RatAdd(x, y) == Rat(x[1] * y[2] + y[1] * x[2], x[2] * y[2])

RatMul(x, y) == Rat(x[1] * y[1], x[2] * y[2])

RatLeq(x, y) == x[1] * y[2] <= y[1] * x[2]

RatLess(x, y) == x[1] * y[2] < y[1] * x[2]

\* Math.max(0, x)
RatMax0(x) == IF x[1] < 0 THEN RatInt(0) ELSE x

\* Math.round(x): the integer nearest to x, halves rounded up.  x stands for
\* a double computed with rounding error, so when x is exactly halfway
\* between two integers the double may lie on either side: both neighbours
\* are possible results (7.7 kg against 6.0 kg is 77.5 exactly and rounds
\* to 77 in double arithmetic).  Otherwise the error is far too small to
\* change the result.
MathRound(x) ==
    LET up == (2 * x[1] + x[2]) \div (2 * x[2])
    IN  IF x[2] = 2 THEN {up - 1, up} ELSE {up}

\* --------------------------------------------------- calculateCloseness

\* (Math.abs(input - expected) / expected) * 100
Deviation(input, expected) == Rat(100 * Abs(input - expected), expected)

\* AverageDeviation with an absent height counted as a height of 0 cm.
AverageDeviation_AbsentHeightAsZero(inputWeight, inputHeight, ageMatchedRecord) ==
    LET weightDeviation == Deviation(inputWeight, ageMatchedRecord.weight)
        height == IF inputHeight # Null THEN inputHeight[1] ELSE 0
    IN  RatMul(RatAdd(weightDeviation,
                      Deviation(height, ageMatchedRecord.height)),
               Rat(1, 2))

\* averageDeviation of calculateCloseness, for a non-null record.
AverageDeviation(inputWeight, inputHeight, ageMatchedRecord) ==
    LET weightDeviation == Deviation(inputWeight, ageMatchedRecord.weight)
    IN  IF inputHeight # Null
        THEN RatMul(RatAdd(weightDeviation,
                           Deviation(inputHeight[1], ageMatchedRecord.height)),
                    Rat(1, 2))
        ELSE weightDeviation

\* ClosenessOf with the 30..40 segment anchored at 20 instead of 30.
ClosenessOf_WrongAnchor(averageDeviation) ==
    IF RatLeq(averageDeviation, RatInt(10)) THEN RatInt(100)
    ELSE IF RatLeq(averageDeviation, RatInt(20))
    THEN RatSub(RatInt(100), RatMul(RatSub(averageDeviation, RatInt(10)), RatInt(1)))
    ELSE IF RatLeq(averageDeviation, RatInt(30))
    THEN RatSub(RatInt(90), RatMul(RatSub(averageDeviation, RatInt(20)), Rat(3, 2)))
    ELSE IF RatLeq(averageDeviation, RatInt(40))
    THEN RatSub(RatInt(75), RatMul(RatSub(averageDeviation, RatInt(20)), Rat(3, 2)))
    ELSE RatSub(RatInt(60), RatSub(averageDeviation, RatInt(40)))

\* The piecewise map from averageDeviation to closeness, before rounding.
ClosenessOf(averageDeviation) ==
    IF RatLeq(averageDeviation, RatInt(10)) THEN RatInt(100)
    ELSE IF RatLeq(averageDeviation, RatInt(20))
    THEN RatSub(RatInt(100), RatMul(RatSub(averageDeviation, RatInt(10)), RatInt(1)))
    ELSE IF RatLeq(averageDeviation, RatInt(30))
    THEN RatSub(RatInt(90), RatMul(RatSub(averageDeviation, RatInt(20)), Rat(3, 2)))
    ELSE IF RatLeq(averageDeviation, RatInt(40))
    THEN RatSub(RatInt(75), RatMul(RatSub(averageDeviation, RatInt(30)), Rat(3, 2)))
    ELSE RatSub(RatInt(60), RatSub(averageDeviation, RatInt(40)))

\* ScoreOf without the clamp at 0.
ScoreOf_Unclamped(averageDeviation) == MathRound(ClosenessOf(averageDeviation))

\* Math.round(Math.max(0, closeness))
ScoreOf(averageDeviation) == MathRound(RatMax0(ClosenessOf(averageDeviation)))

\* The scores calculateCloseness may return (one, or two at an exact half).
calculateCloseness(inputWeight, inputHeight, ageMatchedRecord) ==
    IF ageMatchedRecord = Null THEN {0}
    ELSE ScoreOf(AverageDeviation(inputWeight, inputHeight, ageMatchedRecord[1]))

\* ---------------------------------------------------- getClosenessLabel

\* The scores a closeness label is asked for.
Scores == 0..100

\* getClosenessLabel with strict thresholds.
getClosenessLabel_Strict(closeness) ==
    IF closeness > 90 THEN "Excellent match"
    ELSE IF closeness > 75 THEN "Very close"
    ELSE IF closeness > 60 THEN "Close match"
    ELSE IF closeness > 40 THEN "Moderate"
    ELSE "Some difference"

getClosenessLabel(closeness) ==
    IF closeness >= 90 THEN "Excellent match"
    ELSE IF closeness >= 75 THEN "Very close"
    ELSE IF closeness >= 60 THEN "Close match"
    ELSE IF closeness >= 40 THEN "Moderate"
    ELSE "Some difference"

\* value || null for an optional number: 0 is falsy and becomes null.
OrNull(value) == IF value = Null \/ value = Some(0) THEN Null ELSE value

\* formatResult(inputData, ageMatchedRecord, weightMatchedRecord): the
\* closeness is computed first; reading ageMatchedRecord.gender of a null
\* record then throws.  A result carries the input height, both records,
\* the closeness and its label.
formatResult(inputWeight, inputHeight, ageMatchedRecord, weightMatchedRecord) ==
    { IF ageMatchedRecord = Null
      THEN [error |-> "TypeError", height |-> Null, ageMatched |-> Null,
            weightMatched |-> Null, closeness |-> Null, closenessLabel |-> ""]
      ELSE [error |-> "", height |-> OrNull(inputHeight),
            ageMatched |-> ageMatchedRecord,
            weightMatched |-> Some(weightMatchedRecord),
            closeness |-> Some(closeness),
            closenessLabel |-> getClosenessLabel(closeness)]
      : closeness \in calculateCloseness(inputWeight, OrNull(inputHeight),
                                         ageMatchedRecord) }

\* --------------------------------------------------------- growth stage

\* The age values a growth stage is asked for, in either unit.
StageAges == 0..MaxAge

\* calculateGrowthStage with the adolescent cutoff taken on the age in
\* years (months >= 72) instead of the raw age value.
calculateGrowthStage_ByMonths(age, unit) ==
    LET months == convertToMonths(age, unit)
    IN  IF months < 24 THEN "INFANT"
        ELSE IF months >= 72 THEN "ADOLESCENT"
        ELSE "CHILD"

\* calculateGrowthStage(age, unit): the second test reads the raw age value.
calculateGrowthStage(age, unit) ==
    LET months == convertToMonths(age, unit)
    IN  IF months < 24 THEN "INFANT"
        ELSE IF age >= 6 THEN "ADOLESCENT"
        ELSE "CHILD"

\* determineGrowthStage with the adolescent cutoff on the raw age value.
determineGrowthStage_RawAge(age, ageUnit) ==
    LET ageMonths == convertToMonths(age, ageUnit)
    IN  IF ageMonths < 24 THEN "infant"
        ELSE IF age < 10 THEN "child"
        ELSE "adolescent"

\* determineGrowthStage(age, ageUnit): ageYears is ageMonths / 12.
determineGrowthStage(age, ageUnit) ==
    LET ageMonths == convertToMonths(age, ageUnit)
        ageYears == Rat(ageMonths, 12)
    IN  IF ageMonths < 24 THEN "infant"
        ELSE IF RatLess(ageYears, RatInt(10)) THEN "child"
        ELSE "adolescent"

\* ------------------------------------------------------ z-score dataset

Stages == {"infant", "child", "adolescent"}

Metrics == {"weight", "height", "bmi"}

\* One entry of the z-score dataset.  A curve is the tuple of its values at
\* z = -2, -1, 0, 1, 2; a field the entry does not have is Null.
ZEntry(g, a, w, h, b, m) ==
    [gender |-> g, age |-> a, weightZ |-> w, heightZ |-> h, bmiZ |-> b,
     medianHeight |-> m]

\* Infant entries are indexed by months: BOY 6 months with both curves, and
\* the same age with the weight curve missing.
InfantEntries ==
    { ZEntry("BOY", 6, Some(<<64, 71, 79, 88, 98>>), Some(<<63, 65, 68, 70, 72>>),
             Null, Null),
      ZEntry("BOY", 6, Null, Some(<<63, 65, 68, 70, 72>>), Null, Null) }

ChildEntries ==
    { ZEntry("GIRL", 3, Some(<<108, 122, 139, 159, 181>>),
             Some(<<88, 91, 95, 99, 103>>), Null, Null) }

\* Adolescent entries are indexed by whole years and carry the BMI curve and
\* the median height: BOY 10 years complete, BOY 11 years with neither.
AdolescentEntries ==
    { ZEntry("BOY", 10, Null, Null, Some(<<14, 15, 16, 18, 21>>), Some(138)),
      ZEntry("BOY", 11, Null, Null, Null, Null) }

Partitions(pool) ==
    {Null} \cup {Some(p) : p \in UNION { [1..n -> pool] : n \in 0..MaxEntries }}

\* The stage sets for which the strategy map has an entry.
StrategyMaps == {Stages, {"infant", "child"}, {"adolescent"}}

\* The datasets data/z-score.json may hold: a strategy map, and per stage a
\* partition that may be missing.  The adolescent partition is an array
\* whose first element is the array of entries; the outer array may be
\* empty.
ZDatasets ==
    { [strategy |-> s, infant |-> i, child |-> c, adolescent |-> a] :
        s \in StrategyMaps,
        i \in Partitions(InfantEntries),
        c \in Partitions(ChildEntries),
        a \in {Null, Some(<<>>)}
              \cup {Some(<<p[1]>>) : p \in Partitions(AdolescentEntries) \ {Null}} }

\* Ages of the curve queries and of the median-height queries.
CurveAges == {3, 6, 10, 120, 126}

MedianAges == {10, 11, 114, 120, 126}

\* Math.round of a quotient that the division computes exactly or to the
\* nearest double: halves round up.
RoundExact(x) == (2 * x[1] + x[2]) \div (2 * x[2])

\* Array.prototype.find with the predicate of both lookups: the first entry
\* of that age and gender, Null when there is none.
FindEntry(entries, ageValue, gender) ==
    LET hits == {i \in 1..Len(entries) :
                    entries[i].age = ageValue /\ entries[i].gender = gender}
    IN  IF hits = {} THEN Null
        ELSE Some(entries[CHOOSE i \in hits : \A j \in hits : i <= j])

\* --------------------------------------------------------- getZScoreCurves

NoCurves == [error |-> "", curves |-> Null]

\* zScoreProp with the metric looked at before the growth stage.
ZScoreProp_MetricFirst(growthStage, metric) ==
    IF metric = "weight" THEN "weightZ"
    ELSE IF metric = "height" THEN "heightZ"
    ELSE IF growthStage = "adolescent" THEN "bmiZ"
    ELSE ""

\* zScoreProp of getZScoreCurves ("" for null).
ZScoreProp(growthStage, metric) ==
    IF growthStage = "adolescent" THEN "bmiZ"
    ELSE IF metric = "weight" THEN "weightZ"
    ELSE IF metric = "height" THEN "heightZ"
    ELSE ""

\* dataSource of getZScoreCurves: zScoreData[growthStage], replaced by its
\* first element for an adolescent array.  Null stands for undefined.
DataSource(data, growthStage) ==
    LET partition == data[growthStage]
    IN  IF growthStage = "adolescent" /\ partition # Null
        THEN IF Len(partition[1]) = 0 THEN Null ELSE Some(partition[1][1])
        ELSE partition

\* getZScoreCurves(gender, age, ageUnit, metric) on the cached dataset: the
\* empty object is curves = Null; dataSource.find on undefined throws.
getZScoreCurves(zData, gender, age, ageUnit, metric) ==
    IF zData = Null THEN NoCurves
    ELSE
    LET growthStage == determineGrowthStage(age, ageUnit)
    IN  IF growthStage \notin zData[1].strategy THEN NoCurves
        ELSE
        LET dataSource == DataSource(zData[1], growthStage)
            ageValue == IF ageUnit = "MONTH" THEN age ELSE RoundExact(RatInt(age))
        IN  IF dataSource = Null
            THEN [error |-> "TypeError", curves |-> Null]
            ELSE
            LET zScoreEntry == FindEntry(dataSource[1], ageValue, gender)
                zScoreProp == ZScoreProp(growthStage, metric)
            IN  IF zScoreEntry = Null THEN NoCurves
                ELSE IF zScoreProp = "" THEN NoCurves
                ELSE IF zScoreEntry[1][zScoreProp] = Null THEN NoCurves
                ELSE [error |-> "", curves |-> zScoreEntry[1][zScoreProp]]

\* --------------------------------------------------- getMedianHeightForAge

\* ageYears of getMedianHeightForAge without the division by 12.
AgeYears_Raw(age, ageUnit) == RatInt(age)

\* ageYears of getMedianHeightForAge.
AgeYears(age, ageUnit) == IF ageUnit = "MONTH" THEN Rat(age, 12) ELSE RatInt(age)

\* getMedianHeightForAge(gender, age, ageUnit): Null stands for null and for
\* the undefined medianHeight of an entry without the field.
getMedianHeightForAge(zData, gender, age, ageUnit) ==
    IF zData = Null THEN Null
    ELSE IF zData[1].adolescent = Null THEN Null
    ELSE IF Len(zData[1].adolescent[1]) = 0 THEN Null
    ELSE
    LET adolescentData == zData[1].adolescent[1][1]
        entry == FindEntry(adolescentData,
                           RoundExact(AgeYears(age, ageUnit)), gender)
    IN  IF entry = Null THEN Null ELSE entry[1].medianHeight

\* ---------------------------------------------------------- getZScoreLabel

\* The z-scores a label is asked for: every tenth from -MaxZTenths/10 up.
ZScores == {Rat(k, 10) : k \in (0 - MaxZTenths)..MaxZTenths}

\* The five label keys of a metric, from severely low to severely high.
LabelKeys(metric) ==
    IF metric = "weight"
    THEN <<"weightSeverelyUnderweight", "weightUnderweight", "weightNormal",
           "weightOverweight", "weightSeverelyOverweight">>
    ELSE IF metric = "height"
    THEN <<"heightSeverelyShort", "heightShort", "heightNormal", "heightTall",
           "heightSeverelyTall">>
    ELSE <<"bmiSeverelyUnderweight", "bmiUnderweight", "bmiNormal",
           "bmiOverweight", "bmiSeverelyOverweight">>

\* getZScoreLabel(metric, zScore) for the three metrics: the label key that
\* is handed to the translator.
getZScoreLabel(metric, zScore) ==
    IF RatLess(zScore, RatInt(0 - 2)) THEN LabelKeys(metric)[1]
    ELSE IF RatLess(zScore, RatInt(0 - 1)) THEN LabelKeys(metric)[2]
    ELSE IF RatLess(zScore, RatInt(1)) THEN LabelKeys(metric)[3]
    ELSE IF RatLess(zScore, RatInt(2)) THEN LabelKeys(metric)[4]
    ELSE LabelKeys(metric)[5]

\* ---------------------------------------------------------- displayResults

\* calculateBMI(weight, height) in kg/m2, for a weight in tenths of a
\* kilogram and a height in centimetres.
calculateBMI(weight, height) == Rat(1000 * weight, height * height)

\* InterpolateOnCurve with the bracketing pair's z taken one too high.
InterpolateOnCurve_ShiftedZ(curve, value) ==
    LET i == IF RatLess(value, RatInt(curve[2])) THEN 1
             ELSE IF RatLess(value, RatInt(curve[3])) THEN 2
             ELSE IF RatLess(value, RatInt(curve[4])) THEN 3
             ELSE 4
    IN  RatAdd(RatInt(i - 2),
               Rat(value[1] - curve[i] * value[2],
                   value[2] * (curve[i + 1] - curve[i])))

\* The z-score of a value against the five curve points, by linear
\* interpolation between the two adjacent points that bracket it, and by
\* extrapolation along the nearest pair outside the curve range.
InterpolateOnCurve(curve, value) ==
    LET i == IF RatLess(value, RatInt(curve[2])) THEN 1
             ELSE IF RatLess(value, RatInt(curve[3])) THEN 2
             ELSE IF RatLess(value, RatInt(curve[4])) THEN 3
             ELSE 4
    IN  RatAdd(RatInt(i - 3),
               Rat(value[1] - curve[i] * value[2],
                   value[2] * (curve[i + 1] - curve[i])))

\* interpolateZScore(gender, age, ageUnit, metric, value): null when the
\* curve data is unavailable.  When the curve lookup throws, the call either
\* lets the error through or reports no curve data.
interpolateZScore(zData, gender, age, ageUnit, metric, value) ==
    LET res == getZScoreCurves(zData, gender, age, ageUnit, metric)
    IN  IF res.error # ""
        THEN {[error |-> res.error, zScore |-> Null],
              [error |-> "", zScore |-> Null]}
        ELSE IF res.curves = Null THEN {[error |-> "", zScore |-> Null]}
        ELSE {[error |-> "", zScore |-> Some(InterpolateOnCurve(res.curves[1], value))]}

\* The measured values a z-score is interpolated for: the medians of the
\* curves of the dataset entries among them.
InterpolateValues == {16, 68, 79, 100}

\* What displayResults has written when it stops: the results container is
\* shown before anything else.
Aborted(error) == [error |-> error, shown |-> {"container"}, zScore |-> Null]

\* The badges displayResults sets from the three z-scores.
Badges(growthStage, height, weightZScore, heightZScore, bmiZScore) ==
    IF growthStage = "adolescent" /\ bmiZScore # Null THEN {"weightBadge"}
    ELSE (IF weightZScore # Null THEN {"weightBadge"} ELSE {})
         \cup (IF height # Null /\ heightZScore # Null THEN {"heightBadge"} ELSE {})

\* displayResults(result) once loadZScoreData has returned.  result is a
\* formatted result: its input height has been through `|| null` and its
\* two records are not null, and the findMatchByAge call of the branch
\* without a height repeats the call that produced result.ageMatched, so
\* neither can throw here.  The closeness indicator, the overall badge and
\* the three columns of values are written whatever the z-scores are.
displayResults(zData, gender, age, ageUnit, weight, height) ==
    LET growthStage == determineGrowthStage(age, ageUnit)
        noScore == {[error |-> "", zScore |-> Null]}
        weightZScores ==
            interpolateZScore(zData, gender, age, ageUnit, "weight", RatInt(weight))
        heightZScores ==
            IF height # Null
            THEN interpolateZScore(zData, gender, age, ageUnit, "height",
                                   RatInt(height[1]))
            ELSE IF growthStage # "adolescent"
            THEN {[error |-> "", zScore |-> Some(RatInt(0))]}
            ELSE noScore
        bmiHeight ==
            IF height # Null THEN height
            ELSE OrNull(getMedianHeightForAge(zData, gender, age, ageUnit))
        bmiZScores ==
            IF growthStage = "adolescent" /\ bmiHeight # Null
            THEN interpolateZScore(zData, gender, age, ageUnit, "bmi",
                                   calculateBMI(weight, bmiHeight[1]))
            ELSE noScore
    IN  { IF w.error # "" THEN Aborted(w.error)
          ELSE IF h.error # "" THEN Aborted(h.error)
          ELSE IF b.error # "" THEN Aborted(b.error)
          ELSE [error |-> "",
                shown |-> {"container", "closeness", "overallBadge", "input",
                           "ageMatched", "weightMatched"}
                          \cup Badges(growthStage, height, w.zScore, h.zScore,
                                      b.zScore),
                zScore |-> w.zScore]
          : w \in weightZScores, h \in heightZScores, b \in bmiZScores }

\* The weights (tenths of a kilogram) and heights of the displayed results.
DisplayWeights == {79, 300}

DisplayHeights == {68, 138}

\* ------------------------------------- getUniqueAges, getChartDataForGender

\* Array.prototype.sort with a comparator that subtracts keys: ascending in
\* the key, entries of equal key in their original order.
SortBy(seq, Key(_)) ==
    LET n == Len(seq)
        Rank(i) == 1 + Cardinality({j \in 1..n :
                          \/ Key(seq[j]) < Key(seq[i])
                          \/ (Key(seq[j]) = Key(seq[i]) /\ j < i)})
    IN  [k \in 1..n |-> seq[CHOOSE i \in 1..n : Rank(i) = k]]

\* The ageMap of getUniqueAges after the records from i on: one entry per
\* (age, unit) key, in order of first occurrence.  The label of an entry is
\* formatAge of its age and unit and is left to the translator.
RECURSIVE AgeMap(_, _, _)
AgeMap(data, i, ageMap) ==
    IF i > Len(data) THEN ageMap
    ELSE LET entry == [age |-> data[i].age, unit |-> data[i].ageUnit]
         IN  AgeMap(data, i + 1,
                    IF \E k \in 1..Len(ageMap) : ageMap[k] = entry
                    THEN ageMap ELSE Append(ageMap, entry))

EntryMonths(entry) == convertToMonths(entry.age, entry.unit)

\* getUniqueAges(): what it returns and what it leaves in childData.  The
\* sort works on the array made from the map's values.
getUniqueAges(data) ==
    IF data = Null THEN [returned |-> <<>>, childData |-> data]
    ELSE [returned |-> SortBy(AgeMap(data[1], 1, <<>>), EntryMonths),
          childData |-> data]

IsGender(gender, d) == d.gender = gender

\* { ...d, normalizedAge } for the records that pass the filter, in dataset
\* order.
Normalized(data, gender) ==
    LET kept == SelectSeq(data, LAMBDA d : IsGender(gender, d))
    IN  [i \in 1..Len(kept) |->
            [gender |-> kept[i].gender, age |-> kept[i].age,
             ageUnit |-> kept[i].ageUnit, weight |-> kept[i].weight,
             height |-> kept[i].height,
             normalizedAge |-> Rat(Months(kept[i]), 12)]]

\* The sort key of getChartDataForGender: normalizedAge is months / 12, so
\* the comparator orders as the months do.
NormalizedMonths(d) == convertToMonths(d.age, d.ageUnit)

\* getChartDataForGender with the sort applied to childData itself before
\* the filter.
getChartDataForGender_SortsDataset(data, gender) ==
    IF data = Null THEN [returned |-> <<>>, childData |-> data]
    ELSE [returned |-> SortBy(Normalized(data[1], gender), NormalizedMonths),
          childData |-> Some(SortBy(data[1], Months))]

\* getChartDataForGender(gender): what it returns and what it leaves in
\* childData.  filter and map build a new array of new objects, and the sort
\* works on that array.
getChartDataForGender(data, gender) ==
    IF data = Null THEN [returned |-> <<>>, childData |-> data]
    ELSE [returned |-> SortBy(Normalized(data[1], gender), NormalizedMonths),
          childData |-> data]

\* -------------------------------------------------------- service worker

Origin == "https://fernando7jr.github.io"

IndexUrl == "https://fernando7jr.github.io/doklah/index.html"

BootstrapUrl ==
    "https://cdn.jsdelivr.net/npm/bootstrap@5.3.0/dist/css/bootstrap.min.css"

\* The requests the worker sees: three of its own origin (the z-score file
\* is not in urlsToCache), the Bootstrap stylesheet and one other
\* cross-origin resource.
RequestUrls ==
    { IndexUrl,
      "https://fernando7jr.github.io/doklah/app.js",
      "https://fernando7jr.github.io/doklah/data/z-score.json",
      BootstrapUrl,
      "https://fonts.example.org/font.woff2" }

\* The requested URLs that install precaches.
urlsToCache ==
    { IndexUrl, "https://fernando7jr.github.io/doklah/app.js", BootstrapUrl }

\* url.startsWith(self.location.origin)
SameOrigin(url) ==
    /\ Len(url) >= Len(Origin)
    /\ SubSeq(url, 1, Len(Origin)) = Origin

\* url.includes("cdn.jsdelivr.net") && url.includes("bootstrap"), over the
\* request URLs.
IsBootstrapCdn(url) == url = BootstrapUrl

\* A response: where it came from and its status.
Response(url, status) == [url |-> url, status |-> status]

\* What the network may do with a request: fail, or answer with a status.
NetworkOutcomes == {"unreachable", "200", "404", "500"}

NetworkResponse(url, outcome) ==
    Response(url, IF outcome = "200" THEN 200
                  ELSE IF outcome = "404" THEN 404 ELSE 500)

\* caches.match: the cached response of that URL, Null for undefined.
CacheMatch(cache, url) ==
    IF \E r \in cache : r.url = url
    THEN Some(CHOOSE r \in cache : r.url = url)
    ELSE Null

\* The test before cache.put with every response taken.
ShouldCache_Always(response) == TRUE

\* The test before cache.put: the response has status 200 (a response of
\* type "error" has status 0).
ShouldCache(response) == response.status = 200

\* The fetch handler for one request and one behaviour of the network:
\* whether the worker responds, with what, whether it used the network, and
\* the response it hands to cache.put.
fetchHandler(cache, url, outcome) ==
    LET cached == CacheMatch(cache, url)
        fromNetwork == NetworkResponse(url, outcome)
        answer(fallback) ==
            IF cached # Null
            THEN [responds |-> TRUE, response |-> cached, network |-> "",
                  put |-> {}]
            ELSE IF outcome = "unreachable"
            THEN [responds |-> TRUE, response |-> fallback,
                  network |-> outcome, put |-> {}]
            ELSE [responds |-> TRUE, response |-> Some(fromNetwork),
                  network |-> outcome,
                  put |-> IF ShouldCache(fromNetwork) THEN {fromNetwork} ELSE {}]
    IN  IF IsBootstrapCdn(url) THEN answer(CacheMatch(cache, url))
        ELSE IF ~SameOrigin(url)
        THEN [responds |-> FALSE, response |-> Null, network |-> "", put |-> {}]
        ELSE answer(CacheMatch(cache, IndexUrl))

\* ---------------------------------------------------------------- settings

SettingKeys == {"language", "darkMode"}

Languages == {"en", "es", "pt"}

\* The values a setting may be given.
SettingValues(key) == IF key = "language" THEN Languages ELSE BOOLEAN

\* The settings objects JSON.stringify may have written: any set of keys.
StoredSettings ==
    { [k \in keys |-> IF k = "language" THEN lang ELSE dark] :
        keys \in SUBSET SettingKeys, lang \in Languages, dark \in BOOLEAN }

\* What localStorage may hold under SETTINGS_KEY: nothing (Null), text that
\* JSON.parse rejects (Corrupt, told apart by a key no settings object has),
\* or a stored settings object.
Corrupt == Some([k \in {"unparsable"} |-> TRUE])

StorageStates ==
    {Null, Corrupt} \cup {Some(s) : s \in StoredSettings}

\* { ...DEFAULT_SETTINGS, ...JSON.parse(stored) }
Merged(defaults, stored) ==
    [k \in SettingKeys \cup DOMAIN stored |->
        IF k \in DOMAIN stored THEN stored[k] ELSE defaults[k]]

\* getSettings(): the merged copy when a stored object can be read, and
\* otherwise (nothing stored, or JSON.parse throws) the DEFAULT_SETTINGS
\* object itself, which isDefaults records.
getSettings(storage, defaults) ==
    IF storage # Null /\ storage # Corrupt
    THEN [settings |-> Merged(defaults, storage[1]), isDefaults |-> FALSE]
    ELSE [settings |-> defaults, isDefaults |-> TRUE]

\* getSetting(key): getSettings()[key] ?? DEFAULT_SETTINGS[key], for values
\* that are never null.
getSetting(storage, defaults, key) == getSettings(storage, defaults).settings[key]

\* settings[key] = value on the object getSettings returned: the new object,
\* and DEFAULT_SETTINGS afterwards.
Assigned(got, defaults, key, value) ==
    LET settings == [got.settings EXCEPT ![key] = value]
    IN  [settings |-> settings,
         defaults |-> IF got.isDefaults THEN settings ELSE defaults]

\* ------------------------------------------------- asynchronous callers

\* The files the asynchronous callers' fetches deliver: what the callers do
\* with the curves is modelled by the synchronous actions, so two files
\* without entries stand for all.
FetchedFiles ==
    { d \in ZDatasets : /\ d.strategy = Stages
                        /\ d.infant \in {Null, Some(<<>>)}
                        /\ d.child = Null
                        /\ d.adolescent = Null }

\* The elements renderGrowthChart appends to the chart SVG, in order.
ChartParts ==
    <<"background", "grid", "axes", "curves", "patientPoint", "legend">>

\* An element of the chart SVG: which invocation made it, for which metric.
Element(i, metric, part) == [invocation |-> i, metric |-> metric, part |-> part]

ChartElements(i, metric) ==
    [p \in 1..Len(ChartParts) |-> Element(i, metric, ChartParts[p])]

\* svg.innerHTML = '<text ...>No data available</text>'
NoDataText(i, metric) == <<Element(i, metric, "noData")>>

\* renderGrowthChart after its await: the SVG it leaves.
Drawn(svg, data, i, metric, gender) ==
    IF Len(getChartDataForGender(data, gender).returned) = 0
    THEN NoDataText(i, metric)
    ELSE svg \o ChartElements(i, metric)

\* loadZScoreData up to its first await: the cached object is returned, or
\* fetch("data/z-score.json") is called.
Begun(data, object) ==
    IF data # Null THEN [pc |-> "done", dataset |-> object, fetches |-> 0]
    ELSE [pc |-> "awaitFetch", dataset |-> 0, fetches |-> 1]

Invocation(fn, metric, gender, begun) ==
    [fn |-> fn, metric |-> metric, gender |-> gender, pc |-> begun.pc,
     dataset |-> begun.dataset]

\* -------------------------------------------------------- assessment form

\* Stands for the NaN parseFloat gives for a field without a number; it is
\* tested for before any comparison, as isNaN is in the code.
NaN == 0 - 999999

\* The form's fields as handleFormSubmit reads them: the checked gender or
\* "", the parsed weight in tenths of a kilogram (absent, zero, negative,
\* above 150 kg, 6.0 kg), the height in centimetres or Null for an empty
\* field, and the selected age option or Null.
FormGenders == {""} \cup Genders

FormWeights == {NaN, 0, 0 - 1, 1501, 60}

FormHeights == {Null, Some(NaN), Some(0), Some(221), Some(61)}

FormAges == {Null, Some([value |-> 5, unit |-> "MONTH"])}

\* validateInput(gender, weight, height, age): the error messages, in order.
validateInput(gender, weight, height, age) ==
    (IF gender = "" THEN <<"Gender is required">> ELSE <<>>)
    \o (IF weight = 0 \/ weight = NaN THEN <<"Weight is required">>
        ELSE IF 10 * weight < 1 \/ weight > 1500
        THEN <<"Weight must be between 0.01 and 150 kg">>
        ELSE <<>>)
    \o (IF age = Null THEN <<"Age is required">> ELSE <<>>)
    \o (IF height = Null THEN <<>>
        ELSE IF height[1] = NaN THEN <<"Height must be a valid number">>
        ELSE IF 100 * height[1] < 1 \/ height[1] > 220
        THEN <<"Height must be between 0.01 and 220 cm">>
        ELSE <<>>)

\* What a submission leaves: the messages shown, currentPatientData, the two
\* matches and the result handed to displayResults (Null when it is not
\* called).
Submitted(errors, patient, ageMatch, weightMatch, result) ==
    [errors |-> errors, currentPatientData |-> patient, ageMatch |-> ageMatch,
     weightMatch |-> weightMatch, result |-> result]

PatientData(gender, weight, height, age) ==
    Some([gender |-> gender, weight |-> weight, height |-> height,
          age |-> age[1].value, ageUnit |-> age[1].unit])

\* handleFormSubmit with currentPatientData stored before the matches are
\* looked up.
handleFormSubmit_StoresFirst(data, current, gender, weight, height, age) ==
    LET errors == validateInput(gender, weight, height, age)
    IN  IF Len(errors) > 0
        THEN {Submitted(errors, current, Null, Null, Null)}
        ELSE LET patient == PatientData(gender, weight, height, age)
                 ageMatch == findMatchByAge(data, gender, age[1].value,
                                            age[1].unit)
                 weightMatch == findMatchByWeightAndHeight(data, gender,
                                                           weight, height)
             IN  IF ageMatch.error # ""
                 THEN {Submitted(<<ageMatch.error>>, patient, Null, Null, Null)}
                 ELSE IF weightMatch.error # ""
                 THEN {Submitted(<<weightMatch.error>>, patient, Null, Null,
                                 Null)}
                 ELSE { IF result.error # ""
                        THEN Submitted(<<result.error>>, patient,
                                       ageMatch.record, weightMatch.record, Null)
                        ELSE Submitted(<<>>, patient, ageMatch.record,
                                       weightMatch.record, Some(result))
                        : result \in formatResult(weight, height,
                                                  ageMatch.record,
                                                  weightMatch.record[1]) }

\* handleFormSubmit on the form's fields: the outcomes of one submission
\* (more than one where the closeness is an exact half).  Validation errors
\* return early; an exception of a resolver or of formatResult is caught and
\* its message shown; currentPatientData is assigned between the resolvers
\* and formatResult.
handleFormSubmit(data, current, gender, weight, height, age) ==
    LET errors == validateInput(gender, weight, height, age)
    IN  IF Len(errors) > 0
        THEN {Submitted(errors, current, Null, Null, Null)}
        ELSE LET patient == PatientData(gender, weight, height, age)
                 ageMatch == findMatchByAge(data, gender, age[1].value,
                                            age[1].unit)
                 weightMatch == findMatchByWeightAndHeight(data, gender,
                                                           weight, height)
             IN  IF ageMatch.error # ""
                 THEN {Submitted(<<ageMatch.error>>, current, Null, Null, Null)}
                 ELSE IF weightMatch.error # ""
                 THEN {Submitted(<<weightMatch.error>>, current, Null, Null,
                                 Null)}
                 ELSE { IF result.error # ""
                        THEN Submitted(<<result.error>>, patient,
                                       ageMatch.record, weightMatch.record, Null)
                        ELSE Submitted(<<>>, patient, ageMatch.record,
                                       weightMatch.record, Some(result))
                        : result \in formatResult(weight, height,
                                                  ageMatch.record,
                                                  weightMatch.record[1]) }

\* ------------------------------------------------------------- actions

NoCall ==
    [op |-> "none", gender |-> "", age |-> Null, unit |-> "", weight |-> Null,
     height |-> Null, ref |-> Null, error |-> "", record |-> Null,
     dev |-> Null, score |-> Null, label |-> "", stage |-> "",
     metric |-> "", curves |-> Null, medianHeight |-> Null,
     zScore |-> Null, shown |-> {}, value |-> Null, list |-> <<>>,
     fetched |-> FALSE, url |-> "", network |-> "", response |-> Null,
     key |-> "", settings |-> Null, wrote |-> FALSE]

Init ==
    /\ childData = Null
    /\ call = NoCall
    /\ prev = Null
    /\ zScoreData = Null
    /\ swCache = {} /\ swPending = {}
    /\ localStorage = Null
    /\ DEFAULT_SETTINGS = [language |-> "en", darkMode |-> FALSE]
    /\ invocations = <<>>
    /\ chartSvg = <<>>
    /\ zScoreFetches = 0
    /\ zScoreObject = 0
    /\ currentPatientData = Null
    /\ errorList = <<>>

\* No call is in progress: the engine is synchronous, one call at a time.
Idle == call.op = "none"

\* `if (childData)` of loadChildData with an empty array taken as no data.
Cached_NonEmptyOnly(data) == data # Null /\ Len(data[1]) > 0

\* `if (childData)` of loadChildData: null is falsy, an array is truthy.
Cached(data) == data # Null

LoadFailed == "Failed to load pediatric reference data"

\* loadChildData: the cached dataset is returned when there is one; otherwise
\* data/child.json is fetched, and the fetch either delivers data.data, which
\* is cached and returned, or fails (network error, non-OK status), and the
\* error is replaced by LoadFailed.
LoadChildData ==
    /\ Idle
    /\ prev' = Null
    /\ IF Cached(childData)
       THEN /\ call' = [NoCall EXCEPT !.op = "loadChildData",
                           !.list = childData[1]]
            /\ UNCHANGED childData
       ELSE \/ \E data \in Datasets :
                 /\ childData' = Some(data)
                 /\ call' = [NoCall EXCEPT !.op = "loadChildData",
                                !.fetched = TRUE, !.list = data]
            \/ /\ call' = [NoCall EXCEPT !.op = "loadChildData",
                              !.fetched = TRUE, !.error = LoadFailed]
               /\ UNCHANGED childData
    /\ UNCHANGED zScoreData
    /\ UNCHANGED workerVars
    /\ UNCHANGED settingsVars
    /\ UNCHANGED asyncVars
    /\ UNCHANGED formVars

FindMatchByAge ==
    /\ Idle
    /\ \E gender \in Genders, age \in QueryAges, ageUnit \in Units :
        LET res == findMatchByAge(childData, gender, age, ageUnit)
        IN  call' = [NoCall EXCEPT !.op = "findMatchByAge", !.gender = gender,
                        !.age = Some(age), !.unit = ageUnit,
                        !.error = res.error, !.record = res.record]
    /\ UNCHANGED <<childData, prev>>
    /\ UNCHANGED zScoreData
    /\ UNCHANGED workerVars
    /\ UNCHANGED settingsVars
    /\ UNCHANGED asyncVars
    /\ UNCHANGED formVars

FindMatchByWeightAndHeight ==
    /\ Idle
    /\ \E gender \in Genders, weight \in QueryWeights,
          height \in {Null} \cup {Some(h) : h \in QueryHeights} :
        LET res == findMatchByWeightAndHeight(childData, gender, weight, height)
        IN  call' = [NoCall EXCEPT !.op = "findMatchByWeightAndHeight",
                        !.gender = gender, !.weight = Some(weight),
                        !.height = height,
                        !.error = res.error, !.record = res.record]
    /\ UNCHANGED <<childData, prev>>
    /\ UNCHANGED zScoreData
    /\ UNCHANGED workerVars
    /\ UNCHANGED settingsVars
    /\ UNCHANGED asyncVars
    /\ UNCHANGED formVars

FindClosestMatch ==
    /\ Idle
    /\ \E gender \in Genders, weight \in QueryWeights,
          age \in {Null} \cup {Some(a) : a \in QueryAges},
          height \in {Null} \cup {Some(h) : h \in QueryHeights} :
        LET res == findClosestMatch(childData, gender, weight, age, height)
        IN  call' = [NoCall EXCEPT !.op = "findClosestMatch",
                        !.gender = gender, !.weight = Some(weight),
                        !.age = age, !.height = height,
                        !.error = res.error, !.record = res.record]
    /\ UNCHANGED <<childData, prev>>
    /\ UNCHANGED zScoreData
    /\ UNCHANGED workerVars
    /\ UNCHANGED settingsVars
    /\ UNCHANGED asyncVars
    /\ UNCHANGED formVars

\* The synchronous call returns to its caller, which consumes the result.
Return ==
    /\ ~Idle
    /\ call' = NoCall
    /\ prev' = Null
    /\ UNCHANGED childData
    /\ UNCHANGED zScoreData
    /\ UNCHANGED workerVars
    /\ UNCHANGED settingsVars
    /\ UNCHANGED asyncVars
    /\ UNCHANGED formVars

\* calculateCloseness(inputWeight, inputHeight, ageMatchedRecord), called on
\* its own or right after another calculateCloseness call, whose deviation
\* and score prev then keeps.
CalculateCloseness ==
    /\ Idle \/ (call.op = "calculateCloseness" /\ prev = Null)
    /\ \E inputWeight \in InputWeights,
          inputHeight \in {Null} \cup {Some(h) : h \in InputHeights},
          ref \in {Null} \cup {Some(r) : r \in AgeMatchedRecords} :
      \E score \in calculateCloseness(inputWeight, inputHeight, ref) :
        call' = [NoCall EXCEPT !.op = "calculateCloseness",
                    !.weight = Some(inputWeight), !.height = inputHeight,
                    !.ref = ref,
                    !.dev = IF ref = Null THEN Null
                            ELSE AverageDeviation(inputWeight, inputHeight, ref[1]),
                    !.score = Some(score)]
    /\ prev' = IF call.op = "calculateCloseness" /\ call.ref # Null
               THEN Some([dev |-> call.dev, score |-> call.score[1]])
               ELSE Null
    /\ UNCHANGED childData
    /\ UNCHANGED zScoreData
    /\ UNCHANGED workerVars
    /\ UNCHANGED settingsVars
    /\ UNCHANGED asyncVars
    /\ UNCHANGED formVars

\* getClosenessLabel(closeness) on its own.
GetClosenessLabel ==
    /\ Idle
    /\ \E closeness \in Scores :
        call' = [NoCall EXCEPT !.op = "getClosenessLabel",
                    !.score = Some(closeness),
                    !.label = getClosenessLabel(closeness)]
    /\ UNCHANGED <<childData, prev>>
    /\ UNCHANGED zScoreData
    /\ UNCHANGED workerVars
    /\ UNCHANGED settingsVars
    /\ UNCHANGED asyncVars
    /\ UNCHANGED formVars

\* formatResult on the form's input and the two matched records.
FormatResult ==
    /\ Idle
    /\ \E inputWeight \in InputWeights,
          inputHeight \in {Null} \cup {Some(h) : h \in InputHeights},
          ageMatchedRecord \in {Null} \cup {Some(r) : r \in AgeMatchedRecords},
          weightMatchedRecord \in AgeMatchedRecords :
      \E result \in formatResult(inputWeight, inputHeight, ageMatchedRecord,
                                 weightMatchedRecord) :
        call' = [NoCall EXCEPT !.op = "formatResult",
                    !.weight = Some(inputWeight), !.height = result.height,
                    !.ref = result.ageMatched, !.record = result.weightMatched,
                    !.error = result.error,
                    !.score = result.closeness,
                    !.label = result.closenessLabel]
    /\ UNCHANGED <<childData, prev>>
    /\ UNCHANGED zScoreData
    /\ UNCHANGED workerVars
    /\ UNCHANGED settingsVars
    /\ UNCHANGED asyncVars
    /\ UNCHANGED formVars

CalculateGrowthStage ==
    /\ Idle
    /\ \E age \in StageAges, unit \in Units :
        call' = [NoCall EXCEPT !.op = "calculateGrowthStage",
                    !.age = Some(age), !.unit = unit,
                    !.stage = calculateGrowthStage(age, unit)]
    /\ UNCHANGED <<childData, prev>>
    /\ UNCHANGED zScoreData
    /\ UNCHANGED workerVars
    /\ UNCHANGED settingsVars
    /\ UNCHANGED asyncVars
    /\ UNCHANGED formVars

DetermineGrowthStage ==
    /\ Idle
    /\ \E age \in StageAges, ageUnit \in Units :
        call' = [NoCall EXCEPT !.op = "determineGrowthStage",
                    !.age = Some(age), !.unit = ageUnit,
                    !.stage = determineGrowthStage(age, ageUnit)]
    /\ UNCHANGED <<childData, prev>>
    /\ UNCHANGED zScoreData
    /\ UNCHANGED workerVars
    /\ UNCHANGED settingsVars
    /\ UNCHANGED asyncVars
    /\ UNCHANGED formVars

\* loadZScoreData: the cached dataset is returned when there is one;
\* otherwise the fetch delivers the parsed file or fails, and the failure is
\* rethrown.
LoadZScoreData ==
    /\ Idle
    /\ IF zScoreData # Null
       THEN /\ call' = [NoCall EXCEPT !.op = "loadZScoreData"]
            /\ UNCHANGED zScoreData
       ELSE \/ \E data \in ZDatasets :
                 /\ zScoreData' = Some(data)
                 /\ call' = [NoCall EXCEPT !.op = "loadZScoreData"]
            \/ /\ call' = [NoCall EXCEPT !.op = "loadZScoreData",
                              !.error = "Failed to load z-score data"]
               /\ UNCHANGED zScoreData
    /\ UNCHANGED <<childData, prev>>
    /\ UNCHANGED workerVars
    /\ UNCHANGED settingsVars
    /\ UNCHANGED asyncVars
    /\ UNCHANGED formVars

GetZScoreCurves ==
    /\ Idle
    /\ \E gender \in Genders, age \in CurveAges, ageUnit \in Units,
          metric \in Metrics :
        LET res == getZScoreCurves(zScoreData, gender, age, ageUnit, metric)
        IN  call' = [NoCall EXCEPT !.op = "getZScoreCurves", !.gender = gender,
                        !.age = Some(age), !.unit = ageUnit, !.metric = metric,
                        !.error = res.error, !.curves = res.curves]
    /\ UNCHANGED <<childData, prev, zScoreData>>
    /\ UNCHANGED workerVars
    /\ UNCHANGED settingsVars
    /\ UNCHANGED asyncVars
    /\ UNCHANGED formVars

GetMedianHeightForAge ==
    /\ Idle
    /\ \E gender \in Genders, age \in MedianAges, ageUnit \in Units :
        call' = [NoCall EXCEPT !.op = "getMedianHeightForAge",
                    !.gender = gender, !.age = Some(age), !.unit = ageUnit,
                    !.medianHeight =
                        getMedianHeightForAge(zScoreData, gender, age, ageUnit)]
    /\ UNCHANGED <<childData, prev, zScoreData>>
    /\ UNCHANGED workerVars
    /\ UNCHANGED settingsVars
    /\ UNCHANGED asyncVars
    /\ UNCHANGED formVars

GetZScoreLabel ==
    /\ Idle
    /\ \E metric \in Metrics, zScore \in ZScores :
        call' = [NoCall EXCEPT !.op = "getZScoreLabel", !.metric = metric,
                    !.zScore = Some(zScore),
                    !.label = getZScoreLabel(metric, zScore)]
    /\ UNCHANGED <<childData, prev, zScoreData>>
    /\ UNCHANGED workerVars
    /\ UNCHANGED settingsVars
    /\ UNCHANGED asyncVars
    /\ UNCHANGED formVars

\* displayResults(result), called by handleFormSubmit without await: the
\* container is shown, then `await loadZScoreData()` returns the cached
\* dataset, or fetches it, or rejects; a rejection ends displayResults
\* there, outside handleFormSubmit's try block.
DisplayResults ==
    /\ Idle
    /\ \E gender \in Genders, age \in CurveAges, ageUnit \in Units,
          weight \in DisplayWeights,
          height \in {Null} \cup {Some(h) : h \in DisplayHeights} :
        \/ /\ zScoreData = Null
           /\ UNCHANGED zScoreData
           /\ LET out == Aborted("Failed to load z-score data")
              IN  call' = [NoCall EXCEPT !.op = "displayResults",
                              !.gender = gender, !.age = Some(age),
                              !.unit = ageUnit, !.weight = Some(weight),
                              !.height = height, !.error = out.error,
                              !.shown = out.shown, !.zScore = out.zScore]
        \/ \E data \in (IF zScoreData = Null THEN ZDatasets ELSE {zScoreData[1]}) :
             /\ zScoreData' = Some(data)
             /\ \E out \in displayResults(Some(data), gender, age, ageUnit,
                                          weight, height) :
                  call' = [NoCall EXCEPT !.op = "displayResults",
                              !.gender = gender, !.age = Some(age),
                              !.unit = ageUnit, !.weight = Some(weight),
                              !.height = height, !.error = out.error,
                              !.shown = out.shown, !.zScore = out.zScore]
    /\ UNCHANGED <<childData, prev>>
    /\ UNCHANGED workerVars
    /\ UNCHANGED settingsVars
    /\ UNCHANGED asyncVars
    /\ UNCHANGED formVars

\* interpolateZScore(gender, age, ageUnit, metric, value) on the cached
\* dataset.
InterpolateZScore ==
    /\ Idle
    /\ \E gender \in Genders, age \in CurveAges, ageUnit \in Units,
          metric \in Metrics, value \in InterpolateValues :
        \E res \in interpolateZScore(zScoreData, gender, age, ageUnit, metric,
                                     RatInt(value)) :
          call' = [NoCall EXCEPT !.op = "interpolateZScore", !.gender = gender,
                      !.age = Some(age), !.unit = ageUnit, !.metric = metric,
                      !.value = Some(RatInt(value)),
                      !.error = res.error, !.zScore = res.zScore]
    /\ UNCHANGED <<childData, prev, zScoreData>>
    /\ UNCHANGED workerVars
    /\ UNCHANGED settingsVars
    /\ UNCHANGED asyncVars
    /\ UNCHANGED formVars

GetUniqueAges ==
    /\ Idle
    /\ LET res == getUniqueAges(childData)
       IN  /\ call' = [NoCall EXCEPT !.op = "getUniqueAges",
                          !.list = res.returned]
           /\ childData' = res.childData
    /\ UNCHANGED <<prev, zScoreData>>
    /\ UNCHANGED workerVars
    /\ UNCHANGED settingsVars
    /\ UNCHANGED asyncVars
    /\ UNCHANGED formVars

GetChartDataForGender ==
    /\ Idle
    /\ \E gender \in Genders :
        LET res == getChartDataForGender(childData, gender)
        IN  /\ call' = [NoCall EXCEPT !.op = "getChartDataForGender",
                           !.gender = gender, !.list = res.returned]
            /\ childData' = res.childData
    /\ UNCHANGED <<prev, zScoreData>>
    /\ UNCHANGED workerVars
    /\ UNCHANGED settingsVars
    /\ UNCHANGED asyncVars
    /\ UNCHANGED formVars

\* The install event: cache.addAll(urlsToCache) stores every asset or, when
\* one of them cannot be fetched, none, and the failure is ignored.
Install ==
    /\ Idle
    /\ \/ swCache' = swCache \cup
                        {Response(u, 200) : u \in {v \in urlsToCache :
                                                CacheMatch(swCache, v) = Null}}
       \/ UNCHANGED swCache
    /\ call' = [NoCall EXCEPT !.op = "install"]
    /\ UNCHANGED <<healthVars, swPending>>
    /\ UNCHANGED settingsVars
    /\ UNCHANGED asyncVars
    /\ UNCHANGED formVars

\* The fetch event for one request.  The cache.put of a fetched response is
\* started, not awaited.
FetchEvent ==
    /\ Idle
    /\ \E url \in RequestUrls, outcome \in NetworkOutcomes :
        LET res == fetchHandler(swCache, url, outcome)
        IN  /\ call' = [NoCall EXCEPT !.op = "fetch", !.url = url,
                           !.network = res.network, !.response = res.response,
                           !.error = IF res.responds THEN "" ELSE "not handled"]
            /\ swPending' = swPending \cup res.put
    /\ UNCHANGED <<healthVars, swCache>>
    /\ UNCHANGED settingsVars
    /\ UNCHANGED asyncVars
    /\ UNCHANGED formVars

\* A started cache.put completes: the response replaces what the cache held
\* for that request.
CachePut ==
    /\ \E r \in swPending :
        /\ swCache' = {c \in swCache : c.url # r.url} \cup {r}
        /\ swPending' = swPending \ {r}
    /\ UNCHANGED <<healthVars, call>>
    /\ UNCHANGED settingsVars
    /\ UNCHANGED asyncVars
    /\ UNCHANGED formVars

GetSettings ==
    /\ Idle
    /\ call' = [NoCall EXCEPT !.op = "getSettings",
                   !.settings = Some(getSettings(localStorage, DEFAULT_SETTINGS).settings)]
    /\ UNCHANGED <<healthVars, workerVars, settingsVars>>
    /\ UNCHANGED asyncVars
    /\ UNCHANGED formVars

GetSetting ==
    /\ Idle
    /\ \E key \in SettingKeys :
        call' = [NoCall EXCEPT !.op = "getSetting", !.key = key,
                    !.value = Some(getSetting(localStorage, DEFAULT_SETTINGS, key))]
    /\ UNCHANGED <<healthVars, workerVars, settingsVars>>
    /\ UNCHANGED asyncVars
    /\ UNCHANGED formVars

\* saveSettings(settings): setItem stores the object, or throws (quota,
\* storage disabled) and the error is only logged.
SaveSettings ==
    /\ Idle
    /\ \E settings \in StoredSettings, wrote \in BOOLEAN :
        /\ localStorage' = IF wrote THEN Some(settings) ELSE localStorage
        /\ call' = [NoCall EXCEPT !.op = "saveSettings",
                       !.settings = Some(settings), !.wrote = wrote]
    /\ UNCHANGED <<healthVars, workerVars, DEFAULT_SETTINGS>>
    /\ UNCHANGED asyncVars
    /\ UNCHANGED formVars

\* updateSetting(key, value): getSettings, assignment, saveSettings.
UpdateSetting ==
    /\ Idle
    /\ \E key \in SettingKeys, wrote \in BOOLEAN :
       \E value \in SettingValues(key) :
        LET res == Assigned(getSettings(localStorage, DEFAULT_SETTINGS),
                            DEFAULT_SETTINGS, key, value)
        IN  /\ DEFAULT_SETTINGS' = res.defaults
            /\ localStorage' = IF wrote THEN Some(res.settings) ELSE localStorage
            /\ call' = [NoCall EXCEPT !.op = "updateSetting", !.key = key,
                           !.value = Some(value),
                           !.settings = Some(res.settings), !.wrote = wrote]
    /\ UNCHANGED <<healthVars, workerVars>>
    /\ UNCHANGED asyncVars
    /\ UNCHANGED formVars

\* changeLanguage(lang): when loadLanguage succeeds, the language is assigned
\* on the object getSettings returns and the object is saved; when it
\* fails, nothing is done.
ChangeLanguage ==
    /\ Idle
    /\ \E lang \in Languages, loaded \in BOOLEAN, wrote \in BOOLEAN :
        IF loaded
        THEN LET res == Assigned(getSettings(localStorage, DEFAULT_SETTINGS),
                                 DEFAULT_SETTINGS, "language", lang)
             IN  /\ DEFAULT_SETTINGS' = res.defaults
                 /\ localStorage' = IF wrote THEN Some(res.settings)
                                    ELSE localStorage
                 /\ call' = [NoCall EXCEPT !.op = "changeLanguage",
                                !.key = "language", !.value = Some(lang),
                                !.settings = Some(res.settings),
                                !.wrote = wrote]
        ELSE /\ call' = [NoCall EXCEPT !.op = "changeLanguage",
                            !.key = "language", !.value = Some(lang),
                            !.error = "language not loaded"]
             /\ UNCHANGED settingsVars
    /\ UNCHANGED <<healthVars, workerVars>>
    /\ UNCHANGED asyncVars
    /\ UNCHANGED formVars

\* The stored text is cleared or damaged from outside the page.
StorageLost ==
    /\ Idle
    /\ localStorage' \in {Null, Corrupt}
    /\ localStorage' # localStorage
    /\ UNCHANGED <<healthVars, workerVars, call, DEFAULT_SETTINGS>>
    /\ UNCHANGED asyncVars
    /\ UNCHANGED formVars

\* What an invocation does to the chart SVG after `await loadZScoreData()`:
\* renderGrowthChart draws, displayResults leaves the chart alone.
Continued(svg, data, i, invocation) ==
    IF invocation.fn = "renderGrowthChart"
    THEN Drawn(svg, data, i, invocation.metric, invocation.gender)
    ELSE svg

\* renderGrowthChart(metric, gender, patientData): the SVG is cleared and
\* loadZScoreData called.  With the dataset cached the rest of the function
\* runs as a microtask before any other event; otherwise the invocation
\* waits for its fetch.  Its callers require currentPatientData, which only
\* a submission over a loaded childData sets.
RenderGrowthChart ==
    /\ Len(invocations) < MaxInvocations
    /\ childData # Null
    /\ \E metric \in Metrics, gender \in Genders :
        LET begun == Begun(zScoreData, zScoreObject)
            invocation == Invocation("renderGrowthChart", metric, gender, begun)
        IN  /\ invocations' = Append(invocations, invocation)
            /\ zScoreFetches' = zScoreFetches + begun.fetches
            /\ chartSvg' = IF begun.pc = "done"
                           THEN Continued(<<>>, childData,
                                          Len(invocations) + 1, invocation)
                           ELSE <<>>
    /\ UNCHANGED <<healthVars, workerVars, settingsVars, call, zScoreObject>>
    /\ UNCHANGED formVars

\* displayResults(result): likewise, without touching the chart.
DisplayResultsBegins ==
    /\ Len(invocations) < MaxInvocations
    /\ LET begun == Begun(zScoreData, zScoreObject)
       IN  /\ invocations' = Append(invocations,
                  Invocation("displayResults", "", "", begun))
           /\ zScoreFetches' = zScoreFetches + begun.fetches
    /\ UNCHANGED <<healthVars, workerVars, settingsVars, call, chartSvg,
                   zScoreObject>>
    /\ UNCHANGED formVars

\* The fetch of an invocation settles: a response that is ok, or a rejection
\* or a response that is not ok, which loadZScoreData rethrows.
FetchSettles ==
    /\ \E i \in 1..Len(invocations), ok \in BOOLEAN :
        /\ invocations[i].pc = "awaitFetch"
        /\ invocations' = [invocations EXCEPT
               ![i].pc = IF ok THEN "awaitJson" ELSE "failed"]
    /\ UNCHANGED <<healthVars, workerVars, settingsVars, call, chartSvg,
                   zScoreFetches, zScoreObject>>
    /\ UNCHANGED formVars

\* response.json() settles: zScoreData is assigned the object it built, a
\* new object for every response, loadZScoreData returns it and the
\* invocation runs to its end, all before any other event.
JsonSettles ==
    /\ \E i \in 1..Len(invocations), data \in FetchedFiles :
        /\ invocations[i].pc = "awaitJson"
        /\ zScoreData' = Some(data)
        /\ zScoreObject' = i
        /\ invocations' = [invocations EXCEPT ![i].pc = "done",
                                              ![i].dataset = i]
        /\ chartSvg' = Continued(chartSvg, childData, i, invocations[i])
    /\ UNCHANGED <<childData, prev, workerVars, settingsVars, call,
                   zScoreFetches>>
    /\ UNCHANGED formVars

\* The submit handler of the assessment form.  hideErrors clears the error
\* list, showErrors fills it; displayResults(result) is called without
\* being awaited, so the handler ends where displayResults first awaits.
HandleFormSubmit ==
    /\ Idle
    /\ Len(invocations) < MaxInvocations
    /\ \E gender \in FormGenders, weight \in FormWeights,
          height \in FormHeights, age \in FormAges :
       \E out \in handleFormSubmit(childData, currentPatientData, gender,
                                   weight, height, age) :
        LET begun == Begun(zScoreData, zScoreObject)
            displays == out.result # Null
        IN  /\ currentPatientData' = out.currentPatientData
            /\ errorList' = out.errors
            /\ invocations' =
                  IF displays
                  THEN Append(invocations,
                              Invocation("displayResults", "", "", begun))
                  ELSE invocations
            /\ zScoreFetches' =
                  IF displays THEN zScoreFetches + begun.fetches
                  ELSE zScoreFetches
            /\ call' = [NoCall EXCEPT !.op = "handleFormSubmit",
                           !.gender = gender, !.weight = Some(weight),
                           !.height = height,
                           !.age = IF age = Null THEN Null
                                   ELSE Some(age[1].value),
                           !.unit = IF age = Null THEN "" ELSE age[1].unit,
                           !.ref = out.ageMatch, !.record = out.weightMatch]
    /\ UNCHANGED <<healthVars, workerVars, settingsVars, chartSvg,
                   zScoreObject>>

Next ==
    \/ LoadChildData
    \/ FindMatchByAge
    \/ FindMatchByWeightAndHeight
    \/ FindClosestMatch
    \/ Return

Spec == Init /\ [][Next]_vars

\* The closeness scorer on its own: a pure function of its three arguments.
ScoreNext == CalculateCloseness \/ Return

ScoreSpec == Init /\ [][ScoreNext]_vars

\* The closeness label, on its own and inside a formatted result, and the
\* z-score classification label.
LabelNext == GetClosenessLabel \/ FormatResult \/ GetZScoreLabel \/ Return

LabelSpec == Init /\ [][LabelNext]_vars

\* The two growth-stage classifiers, pure functions of (age, unit).
StageNext == CalculateGrowthStage \/ DetermineGrowthStage \/ Return

StageSpec == Init /\ [][StageNext]_vars

\* The z-score curve service over its cached dataset.
ZScoreNext ==
    \/ LoadZScoreData
    \/ GetZScoreCurves
    \/ GetMedianHeightForAge
    \/ Return

ZScoreSpec == Init /\ [][ZScoreNext]_vars

\* The results view over the z-score dataset it loads.
DisplayNext == DisplayResults \/ Return

DisplaySpec == Init /\ [][DisplayNext]_vars

\* The z-score interpolation over the cached dataset.
InterpolateNext == LoadZScoreData \/ InterpolateZScore \/ Return

InterpolateSpec == Init /\ [][InterpolateNext]_vars

\* The read-only calls over the two datasets.  A run works on one dataset
\* at a time, the reference datasets are shorter than MaxRecords, and the
\* scorer and the formatter, which read neither dataset, run beside the
\* datasets of at most one record.
FrameNext ==
    \/ /\ zScoreData = Null
       /\ LoadChildData
       /\ childData' # Null => Len(childData'[1]) < MaxRecords
    \/ childData = Null /\ LoadZScoreData
    \/ childData # Null /\ FindMatchByAge
    \/ childData # Null /\ FindMatchByWeightAndHeight
    \/ childData # Null /\ FindClosestMatch
    \/ Idle /\ childData # Null /\ Len(childData[1]) <= 1 /\ CalculateCloseness
    \/ Idle /\ childData # Null /\ Len(childData[1]) <= 1 /\ FormatResult
    \/ GetUniqueAges
    \/ GetChartDataForGender
    \/ zScoreData # Null /\ GetZScoreCurves
    \/ Return

FrameSpec == Init /\ [][FrameNext]_vars

\* The service worker: install, fetch events and the cache writes they
\* start.
WorkerNext == Install \/ FetchEvent \/ CachePut \/ Return

WorkerSpec == Init /\ [][WorkerNext]_vars

\* The settings store.
SettingsNext ==
    \/ GetSettings
    \/ GetSetting
    \/ SaveSettings
    \/ UpdateSetting
    \/ ChangeLanguage
    \/ StorageLost
    \/ Return

SettingsSpec == Init /\ [][SettingsNext]_vars

\* The asynchronous callers of loadZScoreData over a loaded reference dataset
\* of at most one record.
AsyncNext ==
    \/ /\ invocations = <<>>
       /\ LoadChildData
       /\ childData' # Null => Len(childData'[1]) <= 1
    \/ Idle /\ RenderGrowthChart
    \/ Idle /\ DisplayResultsBegins
    \/ FetchSettles
    \/ JsonSettles
    \/ Return

AsyncSpec == Init /\ [][AsyncNext]_vars

\* The assessment form over a reference dataset of at most one record, one
\* results view loading at a time.
FormNext ==
    \/ /\ invocations = <<>>
       /\ LoadChildData
       /\ childData' # Null => Len(childData'[1]) <= 1
    \/ /\ \A i \in 1..Len(invocations) : invocations[i].pc \in {"done", "failed"}
       /\ HandleFormSubmit
    \/ FetchSettles
    \/ JsonSettles
    \/ Return

FormSpec == Init /\ [][FormNext]_vars

\* ------------------------------------------------------------ claims

\* The records of the loaded dataset, and those of one gender.
LoadedRecords ==
    IF childData = Null THEN {}
    ELSE {childData[1][i] : i \in 1..Len(childData[1])}

OfGender(gender) == {r \in LoadedRecords : r.gender = gender}

\* Position in the dataset of the first occurrence of a loaded record.
FirstIndex(r) ==
    CHOOSE i \in 1..Len(childData[1]) :
        /\ childData[1][i] = r
        /\ \A j \in 1..(i - 1) : childData[1][j] # r

AgeDistance(r, months) == Abs(Months(r) - months)

\* The records of a set that are nearest in age-in-months to months.
NearestInAge(records, months) ==
    {r \in records :
        \A c \in records : AgeDistance(r, months) <= AgeDistance(c, months)}

\* The orderings of a sequence.
Orderings(seq) ==
    {[i \in 1..Len(seq) |-> seq[f[i]]] :
        f \in {g \in [1..Len(seq) -> 1..Len(seq)] :
                  \A i, j \in 1..Len(seq) : g[i] = g[j] => i = j}}

AgeCall == call.op = "findMatchByAge"

AgeQueryMonths == convertToMonths(call.age[1], call.unit)

\* C1: whenever the loaded dataset holds a record of the requested gender,
\* findMatchByAge returns a record of the dataset, of that gender, whose
\* distance in age-in-months to the query is the least over that gender.
C1_MatchByAgeIsNearest ==
    (AgeCall /\ OfGender(call.gender) # {}) =>
        /\ call.error = ""
        /\ call.record # Null
        /\ call.record[1] \in LoadedRecords
        /\ call.record[1].gender = call.gender
        /\ \A c \in OfGender(call.gender) :
              AgeDistance(call.record[1], AgeQueryMonths)
                  <= AgeDistance(c, AgeQueryMonths)

\* C1 witness: the nearest record is not the first candidate of its gender and
\* some candidate is strictly farther from the query.
C1_Witness ==
    /\ AgeCall
    /\ call.record # Null
    /\ Len(GenderCandidates(childData, call.gender)) >= 2
    /\ call.record[1] # GenderCandidates(childData, call.gender)[1]
    /\ \E c \in OfGender(call.gender) :
          AgeDistance(c, AgeQueryMonths)
              > AgeDistance(call.record[1], AgeQueryMonths)

\* C2: when the records nearest to the query are two records, one younger
\* and one older than the query, findMatchByAge returns the older one, and
\* does so for every ordering of the dataset.
C2_AgeTiePrefersOlder ==
    (AgeCall /\ call.record # Null) =>
        \A a, b \in OfGender(call.gender) :
            ( /\ NearestInAge(OfGender(call.gender), AgeQueryMonths) = {a, b}
              /\ Months(a) < AgeQueryMonths
              /\ Months(b) > AgeQueryMonths ) =>
                /\ call.record[1] = b
                /\ \A data \in Orderings(childData[1]) :
                      findMatchByAge(Some(data), call.gender, call.age[1],
                                     call.unit) = Returned(b)

\* C2 witness: such a tie, with the younger record earlier in the dataset
\* than the older one that is returned.
C2_Witness ==
    /\ AgeCall
    /\ call.record # Null
    /\ \E a \in OfGender(call.gender) :
          /\ NearestInAge(OfGender(call.gender), AgeQueryMonths)
                = {a, call.record[1]}
          /\ Months(a) < AgeQueryMonths
          /\ Months(call.record[1]) > AgeQueryMonths
          /\ FirstIndex(a) < FirstIndex(call.record[1])

\* C3 (as claimed): a findMatchByAge query that carries the gender and the
\* exact age and unit of a record of the dataset returns a record with that
\* very age and unit.
C3_ExactAgeReturnsThatRecord ==
    ( /\ AgeCall
      /\ \E r \in OfGender(call.gender) :
            r.age = call.age[1] /\ r.ageUnit = call.unit ) =>
        /\ call.record # Null
        /\ call.record[1].age = call.age[1]
        /\ call.record[1].ageUnit = call.unit

WeightCall == call.op = "findMatchByWeightAndHeight"

\* The candidates of a set whose weight difference to weight is the least.
NearestInWeight(records, weight) ==
    {r \in records :
        \A c \in records :
            ~DiffLess(WeightDiff(c.weight, weight), WeightDiff(r.weight, weight))}

CallCandidates == GenderCandidates(childData, call.gender)

CallClosestByWeight == ClosestByWeight(CallCandidates, call.weight[1])

CallGroupIndices ==
    LET candidates == CallCandidates
        selected == ClosestByWeight(candidates, call.weight[1])
    IN  {i \in 1..Len(candidates) :
            WithinTolerance(WeightDiff(candidates[i].weight, selected.weight))}

\* The group positions whose record is nearest to value on metric.
NearestInGroup(metric, value) ==
    LET candidates == CallCandidates
        indices == CallGroupIndices
    IN  {i \in indices :
            \A j \in indices :
                Abs(candidates[i][metric] - value)
                    <= Abs(candidates[j][metric] - value)}

First(indices) == CHOOSE i \in indices : \A j \in indices : i <= j

HeightRefined ==
    /\ WeightCall
    /\ call.height # Null
    /\ call.record # Null
    /\ Cardinality(CallGroupIndices) > 1

\* C5 (as claimed): with a height and a weight group of more than one member
\* the result is a group member nearest in height, and of the members
\* nearest in height one of the largest height.
C5_HeightTiePrefersTaller ==
    HeightRefined =>
        /\ \E i \in NearestInGroup("height", call.height[1]) :
              call.record[1] = CallCandidates[i]
        /\ \A i \in NearestInGroup("height", call.height[1]) :
              CallCandidates[i].height <= call.record[1].height

\* C5 (amended): with a height and a weight group of more than one member
\* the result is the group member nearest in height that comes first in the
\* dataset: no tie-break on height is applied.
C5_HeightTieKeepsFirst ==
    HeightRefined =>
        call.record[1]
            = CallCandidates[First(NearestInGroup("height", call.height[1]))]

\* C5 witness: two group members equidistant in height from the query, the
\* shorter one first in the dataset, and the shorter one returned.
C5_Witness ==
    /\ HeightRefined
    /\ \E i, j \in NearestInGroup("height", call.height[1]) :
          /\ i < j
          /\ CallCandidates[i].height < CallCandidates[j].height
          /\ call.record[1] = CallCandidates[i]

CombinedCall == call.op = "findClosestMatch"

\* C6: in findClosestMatch a weight group of more than one member is refined
\* by age alone when an age is given (whatever the height, the result is that
\* of the same call without a height, hence the same for every height), by
\* height only when the age is null, and not at all when neither is given or
\* the group has one member.
C6_AgeBeforeHeight ==
    (CombinedCall /\ call.record # Null) =>
        /\ call.age # Null =>
              findClosestMatch(childData, call.gender, call.weight[1],
                               call.age, Null).record = call.record
        /\ (call.age # Null /\ Cardinality(CallGroupIndices) > 1) =>
              \E i \in NearestInGroup("age", call.age[1]) :
                  call.record[1] = CallCandidates[i]
        /\ (call.age = Null /\ call.height # Null
                /\ Cardinality(CallGroupIndices) > 1) =>
              \E i \in NearestInGroup("height", call.height[1]) :
                  call.record[1] = CallCandidates[i]
        /\ ((call.age = Null /\ call.height = Null)
                \/ Cardinality(CallGroupIndices) = 1) =>
              call.record[1] = CallClosestByWeight

\* C6 witness: a weight group of two, an age and a height both given, and a
\* result that is nearest in age but not nearest in height.
C6_Witness ==
    /\ CombinedCall
    /\ call.record # Null
    /\ call.age # Null
    /\ call.height # Null
    /\ Cardinality(CallGroupIndices) > 1
    /\ \A i \in NearestInGroup("height", call.height[1]) :
          call.record[1] # CallCandidates[i]

Resolvers == {"findMatchByAge", "findMatchByWeightAndHeight", "findClosestMatch"}

\* C7: on a non-empty dataset without a record of the requested gender each
\* resolver fails with the no-data-for-gender error and returns no record;
\* a record a resolver returns always has the requested gender.
C7_NoRecordOfOtherGender ==
    call.op \in Resolvers =>
        /\ (LoadedRecords # {} /\ OfGender(call.gender) = {}) =>
              call.error = NoDataForGender /\ call.record = Null
        /\ call.record # Null => call.record[1].gender = call.gender

\* C7 witness: a resolver called for a gender the non-empty dataset lacks.
C7_Witness ==
    /\ call.op \in Resolvers
    /\ LoadedRecords # {}
    /\ OfGender(call.gender) = {}
    /\ call.error = NoDataForGender

\* C8 (as claimed): a resolver reports not-loaded only when the dataset was
\* never populated; a loaded, empty dataset is reported as no data for the
\* gender.
C8_NotLoadedOnlyWhenNeverPopulated ==
    call.op \in Resolvers =>
        /\ call.error = NotLoaded <=> childData = Null
        /\ (childData # Null /\ LoadedRecords = {}) =>
              call.error = NoDataForGender

\* C8 (amended): a resolver reports not-loaded exactly when the dataset was
\* never populated or was loaded empty, and no data for the gender exactly
\* when the loaded dataset is non-empty without a record of the gender.
C8_NotLoadedWhenNullOrEmpty ==
    call.op \in Resolvers =>
        /\ call.error = NotLoaded <=> (childData = Null \/ LoadedRecords = {})
        /\ call.error = NoDataForGender
              <=> (LoadedRecords # {} /\ OfGender(call.gender) = {})

\* C8 witness: a resolver called on a dataset that was loaded empty.
C8_Witness ==
    /\ call.op \in Resolvers
    /\ childData = Some(<<>>)
    /\ call.error = NotLoaded

ScoreCall == call.op = "calculateCloseness"

\* C9: of two calculateCloseness calls the one with the larger average
\* deviation never scores higher; a deviation of exactly 10, 20, 30, 40
\* scores 100, 90, 75, 60; 8.0 kg against 7.0 kg without a height scores 96.
C9_ClosenessMonotoneContinuous ==
    (ScoreCall /\ call.ref # Null) =>
        /\ (prev # Null /\ RatLess(prev[1].dev, call.dev)) =>
              prev[1].score >= call.score[1]
        /\ call.dev = RatInt(10) => call.score[1] = 100
        /\ call.dev = RatInt(20) => call.score[1] = 90
        /\ call.dev = RatInt(30) => call.score[1] = 75
        /\ call.dev = RatInt(40) => call.score[1] = 60
        /\ (call.weight = Some(80) /\ call.height = Null
                /\ call.ref[1].weight = 70) => call.score[1] = 96

\* C9 witness: a call at deviation exactly 40 scoring 60, right after a call
\* at deviation exactly 30 that scored 75.
C9_Witness ==
    /\ ScoreCall
    /\ call.ref # Null
    /\ prev # Null
    /\ prev[1].dev = RatInt(30)
    /\ prev[1].score = 75
    /\ call.dev = RatInt(40)
    /\ call.score[1] = 60

\* C10: for a record of positive weight and height, calculateCloseness is an
\* integer from 0 to 100, and 0 when the average deviation exceeds 100.
C10_ScoreWithinRange ==
    ScoreCall =>
        /\ call.score[1] \in 0..100
        /\ (call.ref # Null /\ RatLess(RatInt(100), call.dev)) =>
              call.score[1] = 0

\* C10 witness: a call with a height whose average deviation exceeds 100.
C10_Witness ==
    /\ ScoreCall
    /\ call.ref # Null
    /\ call.height # Null
    /\ RatLess(RatInt(100), call.dev)
    /\ call.score[1] = 0

\* C11: without an input height calculateCloseness depends on the weight
\* deviation alone: the average deviation is the weight deviation, the
\* score is the same whatever the height of the reference record, and an
\* input weight equal to the record's weight scores 100.  With an input
\* height the score is computed from the mean of the weight and height
\* percentage deviations.
C11_HeightAbsentUsesWeightOnly ==
    (ScoreCall /\ call.ref # Null) =>
        LET inputWeight == call.weight[1]
            record == call.ref[1]
            weightDeviation == Deviation(inputWeight, record.weight)
        IN  IF call.height = Null
            THEN /\ call.dev = weightDeviation
                 /\ call.score[1] \in ScoreOf(weightDeviation)
                 /\ \A h \in InputHeights \ {0} :
                       calculateCloseness(inputWeight, Null,
                                          Some([record EXCEPT !.height = h]))
                           = calculateCloseness(inputWeight, Null, call.ref)
                 /\ inputWeight = record.weight => call.score[1] = 100
            ELSE LET mean == RatMul(RatAdd(weightDeviation,
                                           Deviation(call.height[1], record.height)),
                                    Rat(1, 2))
                 IN  /\ call.dev = mean
                     /\ call.score[1] \in ScoreOf(mean)

\* C11 witness: a call without a height whose weight is the record's weight,
\* scoring 100.
C11_Witness ==
    /\ ScoreCall
    /\ call.ref # Null
    /\ call.height = Null
    /\ call.weight[1] = call.ref[1].weight
    /\ call.score[1] = 100

LabelCall ==
    \/ call.op = "getClosenessLabel"
    \/ call.op = "formatResult" /\ call.error = ""

\* C12: every score from 0 to 100 gets exactly one closeness label:
\* "Excellent match" from 90, "Very close" from 75, "Close match" from 60,
\* "Moderate" from 40, "Some difference" below; and the closenessLabel of a
\* formatted result is the label of that result's closeness.
C12_LabelMatchesThresholds ==
    LabelCall =>
        LET closeness == call.score[1]
        IN  /\ closeness \in Scores
            /\ call.label = "Excellent match" <=> closeness >= 90
            /\ call.label = "Very close" <=> (closeness >= 75 /\ closeness < 90)
            /\ call.label = "Close match" <=> (closeness >= 60 /\ closeness < 75)
            /\ call.label = "Moderate" <=> (closeness >= 40 /\ closeness < 60)
            /\ call.label = "Some difference" <=> closeness < 40
            /\ call.op = "formatResult" =>
                  /\ call.label = getClosenessLabel(closeness)
                  /\ closeness \in calculateCloseness(call.weight[1],
                                                      call.height, call.ref)

\* C12 witness: a formatted result whose closeness is exactly 90, labelled
\* "Excellent match".
C12_Witness ==
    /\ call.op = "formatResult"
    /\ call.error = ""
    /\ call.score = Some(90)
    /\ call.label = "Excellent match"

\* The age in months of the call in progress.
CallMonths == convertToMonths(call.age[1], call.unit)

C14_StageByMonthsOnly ==
    call.op = "determineGrowthStage" =>
        LET age == call.age[1]
        IN  /\ convertToMonths(age, "YEAR") = 12 * age
            /\ convertToMonths(age, "MONTH") = age
            /\ call.stage = "infant" <=> CallMonths < 24
            /\ call.stage = "child" <=> (CallMonths >= 24 /\ CallMonths < 120)
            /\ call.stage = "adolescent" <=> CallMonths >= 120
            /\ \A a \in StageAges, u \in Units :
                  convertToMonths(a, u) = CallMonths =>
                      determineGrowthStage(a, u) = call.stage

\* C14 witness: 120 MONTH classified adolescent, as 10 YEAR is.
C14_Witness ==
    /\ call.op = "determineGrowthStage"
    /\ call.unit = "MONTH"
    /\ call.age = Some(120)
    /\ call.stage = "adolescent"
    /\ determineGrowthStage(10, "YEAR") = "adolescent"

CurvesCall == call.op = "getZScoreCurves"

\* The growth stage of the call in progress.
CallStage == determineGrowthStage(call.age[1], call.unit)

\* The entries of the partition the call in progress looks in, Null when the
\* dataset has no such array.
CallEntries ==
    IF zScoreData = Null THEN Null ELSE DataSource(zScoreData[1], CallStage)

\* The entry the call in progress is about: the first one of the partition
\* with the age value and gender asked for.
CallEntry ==
    IF CallEntries = Null THEN Null
    ELSE FindEntry(CallEntries[1], call.age[1], call.gender)

\* The curve field the call in progress asks for ("" when there is none).
CallField ==
    IF CallStage = "adolescent" THEN "bmiZ"
    ELSE IF call.metric = "weight" THEN "weightZ"
    ELSE IF call.metric = "height" THEN "heightZ"
    ELSE ""

\* C15: getZScoreCurves returns the empty result, and does not raise, when
\* the dataset is not loaded, the strategy map has no entry for the stage,
\* the dataset has no partition for the stage, no entry matches the age and
\* gender, or the matched entry lacks the curve field.
C15_EmptyWithoutRaising ==
    CurvesCall =>
        /\ call.error = ""
        /\ zScoreData = Null => call.curves = Null
        /\ (zScoreData # Null /\ CallStage \notin zScoreData[1].strategy) =>
              call.curves = Null
        /\ (zScoreData # Null /\ zScoreData[1][CallStage] = Null) =>
              call.curves = Null
        /\ CallEntry = Null => call.curves = Null
        /\ (CallEntry # Null /\ CallField # "" /\ CallEntry[1][CallField] = Null) =>
              call.curves = Null

\* C17: when getZScoreCurves finds an entry, an adolescent query gets the
\* five values of the entry's BMI curve whatever the metric asked for, and
\* an infant or child query gets the entry's weight curve for "weight", its
\* height curve for "height" and nothing for any other metric.
C17_CurveFieldByStage ==
    (CurvesCall /\ call.error = "" /\ CallEntry # Null
        /\ CallStage \in zScoreData[1].strategy) =>
        /\ call.curves # Null => Len(call.curves[1]) = 5
        /\ IF CallStage = "adolescent"
           THEN /\ call.curves = CallEntry[1].bmiZ
                /\ \A metric \in Metrics :
                      getZScoreCurves(zScoreData, call.gender, call.age[1],
                                      call.unit, metric).curves = call.curves
           ELSE /\ call.metric = "weight" => call.curves = CallEntry[1].weightZ
                /\ call.metric = "height" => call.curves = CallEntry[1].heightZ
                /\ call.metric \notin {"weight", "height"} => call.curves = Null

\* C17 witness: an adolescent query for the weight metric that gets the BMI
\* curve of its entry.
C17_Witness ==
    /\ CurvesCall
    /\ CallStage = "adolescent"
    /\ call.metric = "weight"
    /\ CallEntry # Null
    /\ call.curves # Null
    /\ call.curves = CallEntry[1].bmiZ

\* C18: for an adolescent age in MONTH units getZScoreCurves looks up the
\* age converted to years and rounded to the nearest whole year, so the
\* query gets what the query for that many YEAR gets (120 MONTH what 10 YEAR
\* gets).
C18_MonthAgeRoundedToYears ==
    (CurvesCall /\ call.error = "" /\ CallStage = "adolescent"
        /\ call.unit = "MONTH") =>
        call.curves = getZScoreCurves(zScoreData, call.gender,
                                      (call.age[1] + 6) \div 12, "YEAR",
                                      call.metric).curves

MedianCall == call.op = "getMedianHeightForAge"

\* The query age of the call in progress in whole years: a MONTH age divided
\* by 12 and rounded to the nearest integer, halves up.
CallYears ==
    IF call.unit = "MONTH" THEN (call.age[1] + 6) \div 12 ELSE call.age[1]

\* The entries of the adolescent partition, none when the dataset is not
\* loaded or has no such partition.
AdolescentData ==
    IF zScoreData = Null THEN <<>>
    ELSE IF zScoreData[1].adolescent = Null THEN <<>>
    ELSE IF Len(zScoreData[1].adolescent[1]) = 0 THEN <<>>
    ELSE zScoreData[1].adolescent[1][1]

CallBucket ==
    CHOOSE b \in 1..5 : LabelKeys(call.metric)[b] = call.label

\* C20: getZScoreLabel puts a z-score in one of five buckets: severely low
\* for z < -2, low between -2 and -1, normal between -1 and 1, high between
\* 1 and 2, severely high only for z > 2; z = 2 and z = -2 are in no
\* "severely" bucket.
C20_SeverelyHighOnlyAboveTwo ==
    call.op = "getZScoreLabel" =>
        LET z == call.zScore[1]
        IN  /\ \E b \in 1..5 : LabelKeys(call.metric)[b] = call.label
            /\ CallBucket = 1 <=> RatLess(z, RatInt(0 - 2))
            /\ CallBucket = 5 <=> RatLess(RatInt(2), z)
            /\ (RatLess(RatInt(0 - 2), z) /\ RatLess(z, RatInt(0 - 1))) =>
                  CallBucket = 2
            /\ (RatLess(RatInt(0 - 1), z) /\ RatLess(z, RatInt(1))) =>
                  CallBucket = 3
            /\ (RatLess(RatInt(1), z) /\ RatLess(z, RatInt(2))) =>
                  CallBucket = 4
            /\ (z = RatInt(2) \/ z = RatInt(0 - 2)) => CallBucket \notin {1, 5}

DisplayCall == call.op = "displayResults"

\* The curve lookup for the weight of the displayed assessment finds
\* nothing.
NoWeightCurve ==
    getZScoreCurves(zScoreData, call.gender, call.age[1], call.unit, "weight")
        = NoCurves

\* C16: an assessment whose z-score curve data is unavailable, because the
\* curve lookup has no entry or because the z-score dataset could not be
\* loaded, is not aborted: displayResults still shows the patient input, the
\* age-matched record and the weight-matched record.
C16_AssessmentNotAborted ==
    (DisplayCall /\ (zScoreData = Null \/ NoWeightCurve)) =>
        /\ call.error = ""
        /\ {"input", "ageMatched", "weightMatched"} \subseteq call.shown

\* What getZScoreCurves returns for the gender, age and metric of the call
\* in progress.
CallCurves ==
    getZScoreCurves(zScoreData, call.gender, call.age[1], call.unit, call.metric)

\* C21: interpolateZScore is exactly 0 when the measured value equals the
\* z = 0 curve value that getZScoreCurves returns for the gender, age and
\* metric, and null when getZScoreCurves returns no curve data.
C21_MedianInterpolatesToZero ==
    call.op = "interpolateZScore" =>
        /\ CallCurves = NoCurves => (call.error = "" /\ call.zScore = Null)
        /\ (CallCurves.curves # Null
               /\ call.value[1] = RatInt(CallCurves.curves[1][3])) =>
              call.zScore = Some(RatInt(0))

\* C21 witness: a weight of 7.9 kg, the median of the entry's weight curve,
\* interpolated to 0.
C21_Witness ==
    /\ call.op = "interpolateZScore"
    /\ call.metric = "weight"
    /\ CallCurves.curves # Null
    /\ call.value = Some(RatInt(79))
    /\ CallCurves.curves[1][3] = 79
    /\ call.zScore = Some(RatInt(0))

\* C22: no call changes a loaded dataset: from one state to the next, the
\* loaded reference dataset and the loaded z-score dataset keep the same
\* records, with the same field values, in the same order.
C22_DatasetsNeverModified ==
    [][/\ childData # Null => childData' = childData
       /\ zScoreData # Null => zScoreData' = zScoreData]_vars

\* C22 witness: getChartDataForGender has returned the records of a gender
\* in an order that is not their order in the dataset, which is still
\* loaded.
C22_Witness ==
    /\ call.op = "getChartDataForGender"
    /\ childData # Null
    /\ Len(call.list) = 2
    /\ call.list # Normalized(childData[1], call.gender)

\* C23: a loadChildData call made when a load has succeeded returns the
\* cached dataset, leaves it in place and fetches nothing; a call made when
\* no load has succeeded fetches, and either caches and returns what it
\* fetched or raises "Failed to load pediatric reference data" and leaves
\* the cache empty, so that the next call fetches again.
C23_LoadedOnceThenCached ==
    [][call'.op = "loadChildData" =>
          IF childData # Null
          THEN /\ ~call'.fetched
               /\ call'.error = ""
               /\ call'.list = childData[1]
               /\ childData' = childData
          ELSE /\ call'.fetched
               /\ call'.error \in {"", "Failed to load pediatric reference data"}
               /\ call'.error = "" =>
                     (childData' # Null /\ call'.list = childData'[1])
               /\ call'.error # "" => childData' = Null]_vars

\* C23 witness: a loadChildData call answered from the cache, which holds
\* an empty dataset.
C23_Witness ==
    /\ call.op = "loadChildData"
    /\ ~call.fetched
    /\ call.error = ""
    /\ childData = Some(<<>>)

\* C24: the service worker is cache-first.  A same-origin request whose
\* response is in the cache is answered with that response and without a
\* network request; a same-origin request that is not cached and cannot be
\* fetched is answered with what the cache holds for /doklah/index.html;
\* and only responses of status 200 are ever stored in the cache.
C24_CacheFirst ==
    [][/\ (Idle /\ call'.op = "fetch" /\ SameOrigin(call'.url)) =>
            LET cached == {r \in swCache : r.url = call'.url}
                index == {r \in swCache : r.url = IndexUrl}
            IN  /\ cached # {} =>
                      (call'.response \in {Some(r) : r \in cached}
                          /\ call'.network = "")
                /\ (cached = {} /\ call'.network = "unreachable") =>
                      /\ index # {} => call'.response \in {Some(r) : r \in index}
                      /\ index = {} => call'.response = Null
       /\ \A r \in swCache' \cup swPending' : r.status = 200]_vars

\* C24 witness: the z-score file, which install does not cache, was fetched
\* with status 200 and stored, and a later request for it is answered from
\* the cache without the network.
C24_Witness ==
    /\ call.op = "fetch"
    /\ call.url = "https://fernando7jr.github.io/doklah/data/z-score.json"
    /\ call.network = ""
    /\ call.response = Some(Response(call.url, 200))
    /\ call.response[1] \in swCache

\* A stored settings object can be read from localStorage.
Readable(storage) == storage # Null /\ storage # Corrupt

Defaults == [language |-> "en", darkMode |-> FALSE]

\* After updateSetting(key, value) whose write succeeded, getSetting(key)
\* is value and every other stored setting is as it was.
UpdateRoundTrip ==
    (Idle /\ call'.op = "updateSetting" /\ call'.wrote) =>
        /\ getSetting(localStorage', DEFAULT_SETTINGS', call'.key)
              = call'.value[1]
        /\ \A k \in SettingKeys \ {call'.key} :
              (Readable(localStorage) /\ k \in DOMAIN localStorage[1]) =>
                  getSetting(localStorage', DEFAULT_SETTINGS', k)
                      = localStorage[1][k]

\* getSettings returns every default key, with the stored values over the
\* defaults.
StoredOverDefaults ==
    (Idle /\ call'.op = "getSettings") =>
        /\ SettingKeys \subseteq DOMAIN call'.settings[1]
        /\ Readable(localStorage) =>
              \A k \in DOMAIN localStorage[1] :
                  call'.settings[1][k] = localStorage[1][k]

\* With nothing readable in storage getSettings returns language 'en' and
\* darkMode false.
DefaultsWhenUnreadable ==
    (Idle /\ call'.op = "getSettings" /\ ~Readable(localStorage)) =>
        call'.settings[1] = Defaults

\* The round trip of updateSetting and getSetting, at every step.
AlwaysUpdateRoundTrip == [][UpdateRoundTrip]_vars

\* The default keys and the precedence of stored values, at every step.
AlwaysStoredOverDefaults == [][StoredOverDefaults]_vars

\* C25: after updateSetting(key, value) with working storage, getSetting(key)
\* returns value and every other stored setting keeps its value; getSettings
\* always contains every default key, stored values overriding defaults; and
\* with storage empty or unreadable getSettings returns language 'en' and
\* darkMode false.
C25_SettingsRoundTrip ==
    [][UpdateRoundTrip /\ StoredOverDefaults /\ DefaultsWhenUnreadable]_vars

\* C27: DEFAULT_SETTINGS is never modified: after any sequence of
\* getSettings, updateSetting, saveSettings, getSetting and changeLanguage
\* calls, with storage empty or a write failing, it still holds language
\* 'en' and darkMode false.
C27_DefaultsNeverModified == DEFAULT_SETTINGS = Defaults

\* C26: the record findMatchByWeightAndHeight returns, with or without a
\* height, has a weight less than 0.1 kg from the weight of the record
\* closest in weight to the input, and a record exactly 0.1 kg from the
\* selected weight is not in the weight group.  Weights are tenths of a
\* kilogram, so 0.1 kg is 1.
C26_WithinTenthOfClosest ==
    (call.op = "findMatchByWeightAndHeight" /\ call.record # Null) =>
        LET candidates == GenderCandidates(childData, call.gender)
            weightGroup == WeightGroup(candidates, CallClosestByWeight)
        IN  /\ Abs(call.record[1].weight - CallClosestByWeight.weight) < 1
            /\ call.height # Null =>
                  \A i \in 1..Len(weightGroup) :
                      Abs(weightGroup[i].weight - CallClosestByWeight.weight)
                          # 1

\* Every invocation begun so far has run to its end without an error.
AllDone == \A i \in 1..Len(invocations) : invocations[i].pc = "done"

Renders == {i \in 1..Len(invocations) : invocations[i].fn = "renderGrowthChart"}

\* The most recently requested chart.
LastRender == CHOOSE i \in Renders : \A j \in Renders : j <= i

\* C28: when renderGrowthChart is invoked again while an earlier invocation
\* is still awaiting loadZScoreData, then once both have finished the chart
\* SVG holds only the elements of the most recently requested chart.
C28_OnlyLatestChart ==
    (AllDone /\ Renders # {}) =>
        \A e \in 1..Len(chartSvg) : chartSvg[e].invocation = LastRender

\* C29: in every interleaving of the callers of loadZScoreData,
\* data/z-score.json is fetched at most once and all callers obtain the same
\* dataset object (sessions in which a load failed are left aside).
C29_FetchedOnce ==
    (\A i \in 1..Len(invocations) : invocations[i].pc # "failed") =>
        /\ zScoreFetches <= 1
        /\ \A i, j \in 1..Len(invocations) :
              (invocations[i].dataset # 0 /\ invocations[j].dataset # 0) =>
                  invocations[i].dataset = invocations[j].dataset

\* The fields of the submission in progress, the validation errors of those
\* fields, and whether a resolver raises on them.
SubmittedAge(c) ==
    IF c.age = Null THEN Null ELSE Some([value |-> c.age[1], unit |-> c.unit])

SubmissionErrors(c) ==
    validateInput(c.gender, c.weight[1], c.height, SubmittedAge(c))

ResolverRaises(data, c) ==
    /\ SubmissionErrors(c) = <<>>
    /\ \/ findMatchByAge(data, c.gender, c.age[1], c.unit).error # ""
       \/ findMatchByWeightAndHeight(data, c.gender, c.weight[1],
                                     c.height).error # ""

SubmissionStep ==
    (Idle /\ call'.op = "handleFormSubmit") =>
        /\ (SubmissionErrors(call') # <<>> \/ ResolverRaises(childData, call')) =>
              /\ currentPatientData' = currentPatientData
              /\ errorList' # <<>>
              /\ invocations' = invocations
        /\ SubmissionErrors(call') # <<>> =>
              errorList' = SubmissionErrors(call')
        /\ currentPatientData' # currentPatientData =>
              /\ call'.ref # Null
              /\ call'.record # Null
              /\ errorList' = <<>>

\* C30: a form submission that fails, because validateInput reports an error
\* or because a resolver raises, leaves currentPatientData as it was and
\* shows the error messages instead of results; currentPatientData is
\* replaced only when both matches were found.
C30_FailedSubmissionKeepsPatient == [][SubmissionStep]_vars

\* C30 witness: after an assessment of a boy has been stored, a submission
\* for a girl fails in the resolver, its message is shown and the boy's data
\* is still the current patient.
C30_Witness ==
    /\ call.op = "handleFormSubmit"
    /\ call.gender = "GIRL"
    /\ errorList = <<NoDataForGender>>
    /\ currentPatientData # Null
    /\ currentPatientData[1].gender = "BOY"

====
